---- MODULE Spec2Model ----
(***************************************************************************)
(* Model of the Agremo drone PDF report extractor (app/extractor.py) and   *)
(* of the HTTP endpoint that drives it (app/main.py).                      *)
(*                                                                         *)
(* Text is a string, read one character at a time (Char), so that the      *)
(* windows, offsets and regular expressions of the extractor are computed  *)
(* on characters as the code computes them.  A number parsed by float()    *)
(* is kept as its decimal numeral; sums and round() work on doubles.       *)
(***************************************************************************)
EXTENDS Integers, Sequences, FiniteSets, TLC

VARIABLES
    caller,         \* which entry point runs: extract_pdf_report or the HTTP handler
    pc,             \* position of the running call
    doc,            \* the PDF file: pages, page-1 blocks, page-2 images, handle state
    analysis_type,  \* AgremoReportExtractor.analysis_type (NoneVal until detected)
    result,         \* AgremoReportExtractor.result
    seen,           \* the local set `seen` of _extract_levels
    upload,         \* outcome of the Cloudinary upload call of this extraction
    request,        \* the HTTP request and the file it names or carries
    constructed,    \* TRUE once AgremoReportExtractor(pdf_path) has been called
    temp_file,      \* state of the temporary file of the HTTP handler
    response,       \* what the entry point returned (or the exception it raised)
    now,            \* the wall clock datetime.now() reads, in ticks
    uploads         \* the calls made to cloudinary.uploader.upload, in order

vars == <<caller, pc, doc, analysis_type, result, seen, upload, request,
          constructed, temp_file, response, now, uploads>>

\* None.  Every text the extractor stores is stripped or is a fixed word, and
\* a numeral starts with a digit, so no stored value starts with a space: the
\* text "None" of a page is not None.
NoneVal == " None"
\* None for the integer fields of map_image (sizes are never negative)
NoneNum == -1

\* ------------------------------------------------------------------------
\* Characters (Python str / re semantics on ASCII)
\* ------------------------------------------------------------------------
DigitSeq == <<"0","1","2","3","4","5","6","7","8","9">>
UpperSeq == <<"A","B","C","D","E","F","G","H","I","J","K","L","M",
              "N","O","P","Q","R","S","T","U","V","W","X","Y","Z">>
LowerSeq == <<"a","b","c","d","e","f","g","h","i","j","k","l","m",
              "n","o","p","q","r","s","t","u","v","w","x","y","z">>

Range(f) == {f[i] : i \in DOMAIN f}

Digits == Range(DigitSeq)
Uppers == Range(UpperSeq)
Letters == Uppers \cup Range(LowerSeq)
\* [\d.]
DigitDot == Digits \cup {"."}
\* \s, and what str.strip() strips, among the ASCII characters: space, \n,
\* \t, \r, \f, and the control characters 0x0B, 0x1C, 0x1D, 0x1E, 0x1F
\* (written as themselves)
Spaces == {" ", "\n", "\t", "\r", "\f", "", "", "", "", ""}
\* \w
WordChars == Letters \cup Digits \cup {"_"}
\* [\w\s]
WordOrSpace == WordChars \cup Spaces

LowerOf == [c \in Uppers |-> LowerSeq[CHOOSE i \in 1..26 : UpperSeq[i] = c]]
DigitVal == [c \in Digits |-> (CHOOSE i \in 1..10 : DigitSeq[i] = c) - 1]

\* the character at (1-based) position i of the string s
Char(s, i) == SubSeq(s, i, i)

\* str.lower() on one character
LowerChar(c) == IF c \in Uppers THEN LowerOf[c] ELSE c
\* str.lower(), character by character (computed by halves)
RECURSIVE Lower(_)
Lower(s) ==
    IF Len(s) <= 1 THEN LowerChar(s)
    ELSE Lower(SubSeq(s, 1, Len(s) \div 2)) \o Lower(SubSeq(s, Len(s) \div 2 + 1, Len(s)))

Min(a, b) == IF a < b THEN a ELSE b
Max(a, b) == IF a > b THEN a ELSE b
SetMin(S) == CHOOSE x \in S : \A y \in S : x <= y
SetMax(S) == CHOOSE x \in S : \A y \in S : x >= y

\* s[a:b] of Python, 0-based, 0 <= a
Slice(s, a, b) == SubSeq(s, a + 1, Min(b, Len(s)))

\* does the literal lit start at (1-based) position i of s
MatchAt(s, i, lit) ==
    /\ i >= 1
    /\ i + Len(lit) - 1 <= Len(s)
    /\ SubSeq(s, i, i + Len(lit) - 1) = lit

\* the same under re.I
MatchAtCI(s, i, lit) ==
    /\ i >= 1
    /\ i + Len(lit) - 1 <= Len(s)
    /\ \A k \in 1..Len(lit) : LowerChar(Char(s, i + k - 1)) = LowerChar(Char(lit, k))

\* str.find(lit): 0-based index of the first occurrence, -1 if none
Find(s, lit) ==
    LET hits == {i \in 1..Len(s) : MatchAt(s, i, lit)}
    IN  IF hits = {} THEN -1 ELSE SetMin(hits) - 1

\* lit in s
Contains(s, lit) == \E i \in 1..Len(s) : MatchAt(s, i, lit)

\* first position j >= i whose character is not in S (Len(s)+1 if none):
\* the end of a greedy character-class run started at i
\* (a stretch of 32 characters in S is passed in one step)
RECURSIVE RunEnd(_, _, _)
RunEnd(s, i, S) ==
    IF i > Len(s) \/ Char(s, i) \notin S THEN i
    ELSE IF \A j \in i..Min(i + 31, Len(s)) : Char(s, j) \in S
         THEN RunEnd(s, Min(i + 32, Len(s) + 1), S)
    ELSE RunEnd(s, i + 1, S)

\* str.strip()
RECURSIVE RStripEnd(_, _)
RStripEnd(s, j) ==
    IF j >= 1 /\ Char(s, j) \in Spaces THEN RStripEnd(s, j - 1) ELSE j
Strip(s) == SubSeq(s, RunEnd(s, 1, Spaces), RStripEnd(s, Len(s)))

\* \b at the boundary before (1-based) position i
IsWordAt(s, i) == i >= 1 /\ i <= Len(s) /\ Char(s, i) \in WordChars
WordBoundary(s, i) == IsWordAt(s, i - 1) # IsWordAt(s, i)

\* ------------------------------------------------------------------------
\* float(): a float is kept as the numeral that names its double, in the
\* form repr() shows without an exponent ("21.503", "3.0", "0.5", "inf"):
\* the fewest significant digits that float() reads back as the same
\* double.  Equal numerals are equal floats, and the other way round.
\* ------------------------------------------------------------------------
\* the last position in a..b of a digit other than 0, a - 1 if there is
\* none (by halves)
RECURSIVE RStripZerosEnd(_, _, _)
RStripZerosEnd(fs, a, b) ==
    LET m == (a + b) \div 2
    IN  IF a > b THEN a - 1
        ELSE IF a = b THEN (IF Char(fs, a) = "0" THEN a - 1 ELSE a)
        ELSE IF \E j \in (m + 1)..b : Char(fs, j) # "0"
             THEN RStripZerosEnd(fs, m + 1, b)
        ELSE RStripZerosEnd(fs, a, m)
RStripZeros(fs) == SubSeq(fs, 1, RStripZerosEnd(fs, 1, Len(fs)))

LStripZeros(ds) == SubSeq(ds, RunEnd(ds, 1, {"0"}), Len(ds))

\* the numeral of the number with integer digits ip and fraction digits fp
Numeral(ip, fp) ==
    LET i == LStripZeros(ip)
        f == RStripZeros(fp)
    IN  (IF i = "" THEN "0" ELSE i) \o "." \o (IF f = "" THEN "0" ELSE f)

\* the digits of a numeral before the point, and after it ("" for ".0")
IntDigits(v) == SubSeq(v, 1, Find(v, "."))
FracDigits(v) == RStripZeros(SubSeq(v, Find(v, ".") + 2, Len(v)))

\* n zeros
RECURSIVE Zeros(_)
Zeros(n) ==
    IF n <= 0 THEN "" ELSE IF n = 1 THEN "0"
    ELSE Zeros(n \div 2) \o Zeros(n - n \div 2)

\* ------------------------------------------------------------------------
\* Arithmetic on doubles (IEEE 754 binary64, round to nearest, ties to
\* even).  A natural number of any size is a sequence of limbs in base
\* 2^15, least significant first, without leading zero limbs.  A double is
\* [m, e], the number m * 2^e, or FZero, or FInf.
\* ------------------------------------------------------------------------
LimbBits == 15
Base == 2 ^ LimbBits

RECURSIVE BigTrim(_)
BigTrim(a) ==
    IF a # <<>> /\ a[Len(a)] = 0 THEN BigTrim(SubSeq(a, 1, Len(a) - 1)) ELSE a

\* The operations that carry from limb to limb work by halves: the half
\* the carry comes from first, then the other half with the carry left.

\* the Len(a) + 1 limbs of a * c + carry, for c <= Base and carry < Base:
\* the top limb is the carry out of the others
RECURSIVE MulLimbs(_, _, _)
MulLimbs(a, c, carry) ==
    IF a = <<>> THEN <<carry>>
    ELSE IF Len(a) = 1
         THEN <<(a[1] * c + carry) % Base, (a[1] * c + carry) \div Base>>
    ELSE LET h  == Len(a) \div 2
             lo == MulLimbs(SubSeq(a, 1, h), c, carry)
         IN  SubSeq(lo, 1, h) \o MulLimbs(SubSeq(a, h + 1, Len(a)), c, lo[h + 1])

\* a * c + carry
BigMulAdd(a, c, carry) == BigTrim(MulLimbs(a, c, carry))

\* the Len(a) + 1 limbs of a + b + carry, for a and b of one length
RECURSIVE AddLimbs(_, _, _)
AddLimbs(a, b, carry) ==
    IF a = <<>> THEN <<carry>>
    ELSE IF Len(a) = 1
         THEN <<(a[1] + b[1] + carry) % Base, (a[1] + b[1] + carry) \div Base>>
    ELSE LET h  == Len(a) \div 2
             lo == AddLimbs(SubSeq(a, 1, h), SubSeq(b, 1, h), carry)
         IN  SubSeq(lo, 1, h) \o AddLimbs(SubSeq(a, h + 1, Len(a)),
                                          SubSeq(b, h + 1, Len(b)), lo[h + 1])

\* a + b + carry (the shorter of a and b is filled with zero limbs)
BigAdd(a, b, carry) ==
    BigTrim(AddLimbs(a \o [i \in 1..Max(0, Len(b) - Len(a)) |-> 0],
                     b \o [i \in 1..Max(0, Len(a) - Len(b)) |-> 0], carry))

\* [q, r]: the limbs of a divided by c <= Base, from the top limb down, r
\* being the remainder carried in; q has the top limb first
RECURSIVE BigDivLoop(_, _, _)
BigDivLoop(a, c, r) ==
    IF a = <<>> THEN [q |-> <<>>, r |-> r]
    ELSE IF Len(a) = 1
         THEN LET cur == r * Base + a[1]
              IN  [q |-> <<cur \div c>>, r |-> cur % c]
    ELSE LET h  == Len(a) \div 2
             hi == BigDivLoop(SubSeq(a, h + 1, Len(a)), c, r)
             lo == BigDivLoop(SubSeq(a, 1, h), c, hi.r)
         IN  [q |-> hi.q \o lo.q, r |-> lo.r]

\* [q, r]: quotient and remainder of a by c
BigDivSmall(a, c) ==
    LET least_first(d) == [q |-> BigTrim([i \in 1..Len(a) |-> d.q[Len(a) + 1 - i]]),
                           r |-> d.r]
    IN  least_first(BigDivLoop(a, c, 0))

RECURSIVE BitLenSmall(_)
BitLenSmall(x) == IF x = 0 THEN 0 ELSE 1 + BitLenSmall(x \div 2)

\* the number of bits of a
BigBitLen(a) ==
    IF a = <<>> THEN 0 ELSE LimbBits * (Len(a) - 1) + BitLenSmall(a[Len(a)])

\* a * 2^j
BigShl(a, j) ==
    BigTrim(BigMulAdd([i \in 1..(j \div LimbBits) |-> 0] \o a, 2 ^ (j % LimbBits), 0))

\* a \div 2^j
BigShr(a, j) ==
    BigDivSmall(SubSeq(a, Min(j \div LimbBits, Len(a)) + 1, Len(a)),
                2 ^ (j % LimbBits)).q

\* (a + t) / 2^j rounded to the nearest natural number, ties to even, where
\* 0 <= t < 1 and sticky tells whether t > 0: one is added to a \div 2^j
\* when bit j - 1 of a is set and the rest is not an exact half (a lower
\* bit is set, or t > 0) or the quotient is odd (bit j of a)
RoundHalfEven(a, j, sticky) ==
    LET bit(i) == IF i \div LimbBits + 1 > Len(a) THEN 0
                  ELSE (a[i \div LimbBits + 1] \div 2 ^ (i % LimbBits)) % 2
        up     == /\ bit(j - 1) = 1
                  /\ \/ sticky
                     \/ bit(j) = 1
                     \/ \E i \in 0..(j - 2) : bit(i) = 1
    IN  IF j = 0 THEN a
        ELSE BigAdd(BigShr(a, j), <<>>, IF up THEN 1 ELSE 0)

MantissaBits == 53

\* 0.0
FZero == [m |-> <<>>, e |-> 0]

\* inf, the result of every operation whose rounded value is 2^1024 or more
FInf == [m |-> <<>>, e |-> 972]

\* the double nearest to (d.q + t) * 2^e, where t < 1 is the fraction with
\* the decimal digits d.ds.  A double m * 2^e has a mantissa of 53 bits and
\* an exponent in -1074..971, or, below 2^-1022, a shorter mantissa and the
\* exponent -1074 (subnormal).  The value is rounded to 53 bits, or at the
\* exponent -1074 if that leaves fewer; what rounds to nothing is 0.0;
\* what has a shorter mantissa is exact, and written with 53 bits where the
\* exponent allows; what comes to 2^1024 or more is inf.
RECURSIVE RoundToDouble(_, _)
RoundToDouble(d, e) ==
    LET len == BigBitLen(d.q)
        sh  == Max(len - MantissaBits, -1074 - e)
        t   == Min(MantissaBits - len, e + 1074)
    IN  IF d.q = <<>> THEN FZero
        ELSE IF sh > 0
             THEN RoundToDouble([q  |-> RoundHalfEven(d.q, sh, RStripZeros(d.ds) # ""),
                                 ds |-> ""], e + sh)
        ELSE IF e - t > 971 THEN FInf
        ELSE [m |-> BigShl(d.q, t), e |-> e - t]

\* a * 5^k (by halves, down to 5^6)
RECURSIVE BigMulPow5(_, _)
BigMulPow5(a, k) ==
    IF k <= 6 THEN BigMulAdd(a, 5 ^ k, 0)
    ELSE LET h == BigMulPow5(a, k \div 2)
         IN  IF h = <<>> THEN <<>> ELSE BigMulPow5(h, k - k \div 2)

\* the natural number written with the digits ds (by halves, down to four
\* digits: the front half times 10^n plus the n digits of the back half)
RECURSIVE BigOfDigits(_)
BigOfDigits(ds) ==
    LET len  == Len(ds)
        d(j) == IF j >= 1 THEN DigitVal[Char(ds, j)] ELSE 0
        n    == len - len \div 2
    IN  IF len <= 4
        THEN BigTrim(<<1000 * d(len - 3) + 100 * d(len - 2) + 10 * d(len - 1) + d(len)>>)
        ELSE LET hi == BigOfDigits(SubSeq(ds, 1, len \div 2))
                 lo == BigOfDigits(SubSeq(ds, len \div 2 + 1, len))
             IN  IF hi = <<>> THEN lo
                 ELSE BigAdd(BigShl(BigMulPow5(hi, n), n), lo, 0)

\* [q, ds]: a \div 10^f, and the f digits of the remainder (by halves)
RECURSIVE BigDivPow10(_, _)
BigDivPow10(a, f) ==
    IF f = 0 THEN [q |-> a, ds |-> ""]
    ELSE IF f = 1
         THEN LET digit(d) == [q |-> d.q, ds |-> DigitSeq[d.r + 1]]
              IN  digit(BigDivSmall(a, 10))
    ELSE LET lo == BigDivPow10(a, f \div 2)
             hi == BigDivPow10(lo.q, f - f \div 2)
         IN  IF lo.q = <<>> THEN [q |-> <<>>, ds |-> Zeros(f - f \div 2) \o lo.ds]
             ELSE [q |-> hi.q, ds |-> hi.ds \o lo.ds]

\* the double of a numeral: n / 10^f is scaled by 2^k, with k large enough
\* for the quotient to have more than 54 bits, and rounded
Float(v) ==
    LET fp == FracDigits(v)
        k  == 4 * Len(fp) + MantissaBits + 1
    IN  IF v = "inf" THEN FInf
        ELSE RoundToDouble(BigDivPow10(BigShl(BigOfDigits(IntDigits(v) \o fp), k),
                                       Len(fp)), -k)

\* x < y
FLess(x, y) ==
    LET mag(d) == BigBitLen(d.m) + d.e
    IN  IF x = FInf \/ y = FZero THEN FALSE
        ELSE IF y = FInf \/ x = FZero THEN TRUE
        ELSE IF mag(x) # mag(y) THEN mag(x) < mag(y)
        ELSE \E i \in 1..Len(x.m) :
                /\ x.m[i] < y.m[i]
                /\ \A j \in (i + 1)..Len(x.m) : x.m[j] = y.m[j]

\* x + y
FAdd(x, y) ==
    IF x = FInf \/ y = FInf THEN FInf
    ELSE IF x = FZero THEN y
    ELSE IF y = FZero THEN x
    ELSE LET e == Min(x.e, y.e)
         IN  RoundToDouble([q  |-> BigAdd(BigShl(x.m, x.e - e), BigShl(y.m, y.e - e), 0),
                            ds |-> ""], e)

\* the decimal digits of a ("" for zero); a number of b bits has at most
\* 31 * b \div 100 + 1 digits
BigDigits(a) == LStripZeros(BigDivPow10(a, (31 * BigBitLen(a)) \div 100 + 1).ds)

\* the numeral of ds * 10^-k (ds has no leading zero)
PointNumeral(ds, k) ==
    Numeral(SubSeq(ds, 1, Len(ds) - k),
            Zeros(k - Len(ds)) \o SubSeq(ds, Max(1, Len(ds) - k + 1), Len(ds)))

\* the numeral of ds * 10^-k rounded to n >= 1 significant digits, ties to
\* even; rounding up adds one to the last digit kept that is not a 9 and
\* turns the 9s after it into zeros
RoundDigits(ds, k, n) ==
    LET next == DigitVal[Char(ds, n + 1)]
        up   == \/ next > 5
                \/ /\ next = 5
                   /\ \/ RStripZeros(SubSeq(ds, n + 2, Len(ds))) # ""
                      \/ DigitVal[Char(ds, n)] % 2 = 1
        j    == SetMax({0} \cup {i \in 1..n : Char(ds, i) # "9"})
    IN  PointNumeral(IF Len(ds) <= n THEN ds
                     ELSE IF ~up THEN SubSeq(ds, 1, n) \o Zeros(Len(ds) - n)
                     ELSE IF j = 0 THEN "1" \o Zeros(Len(ds))
                     ELSE SubSeq(ds, 1, j - 1) \o DigitSeq[DigitVal[Char(ds, j)] + 2]
                          \o Zeros(Len(ds) - j),
                     k)

\* the shortest numeral that float() reads back as the double x, and of
\* those the nearest to x.  The candidates c of n = 1, 2, ... significant
\* digits are the nearest numeral of n digits and after it, when that one was
\* rounded down, the numeral of n digits above x: the doubles that float()
\* reads as a power of two reach further above it than below, so the numeral
\* above may name x where the nearer one does not.  17 digits always do.
RECURSIVE ReprLoop(_, _, _, _, _)
ReprLoop(x, ds, k, n, c) ==
    IF n >= 17 \/ Float(c) = x THEN c
    ELSE LET above == RoundDigits(SubSeq(ds, 1, n) \o "9" \o Zeros(Len(ds) - n - 1), k, n)
         IN  IF 1 <= n /\ n < Len(ds) /\ c # above
             THEN ReprLoop(x, ds, k, n, above)
             ELSE ReprLoop(x, ds, k, n + 1, RoundDigits(ds, k, n + 1))

\* the numeral that names the double x, from the exact decimal digits of x
Repr(x) ==
    IF x = FInf THEN "inf"
    ELSE IF x = FZero THEN "0.0"
    ELSE ReprLoop(x, BigDigits(IF x.e < 0 THEN BigMulPow5(x.m, -x.e)
                               ELSE BigShl(x.m, x.e)),
                  Max(0, -x.e), 0, "0.0")

\* the numeral that names the double of the numeral v.  A numeral of up to
\* 15 significant digits between 1e-300 and 1e300 names its own double (no
\* other such numeral has the same double); any other is read with float()
\* and written back.
Canonical(v) ==
    LET ds == IntDigits(v) \o FracDigits(v)
    IN  IF /\ Len(RStripZeros(LStripZeros(ds))) <= 15
           /\ Len(ds) <= 300
        THEN v
        ELSE Repr(Float(v))

\* float(s) for s made of digits and dots: ValueError (ok = FALSE) unless s
\* has at least one digit and at most one dot
ParseFloat(s) ==
    LET dots == {i \in 1..Len(s) : Char(s, i) = "."}
        p    == IF dots = {} THEN Len(s) + 1 ELSE SetMin(dots)
    IN  IF Cardinality(dots) > 1 \/ Len(s) - Cardinality(dots) = 0
        THEN [ok |-> FALSE, val |-> NoneVal]
        ELSE [ok |-> TRUE,
              val |-> Canonical(Numeral(SubSeq(s, 1, p - 1),
                                        SubSeq(s, p + 1, Len(s))))]

\* round(x, 2): the exact value of the double x is rounded to hundredths,
\* ties to even (float.__round__ rounds the binary value, so 2.675, whose
\* double lies below it, gives 2.67), and the result is read as a double
\* again; round(inf, 2) is inf
Round2(x) ==
    IF x = FInf THEN "inf"
    ELSE Canonical(PointNumeral(
             BigDigits(IF x.e >= 0 THEN BigShl(BigMulAdd(x.m, 100, 0), x.e)
                       ELSE RoundHalfEven(BigMulAdd(x.m, 100, 0), -x.e, FALSE)), 2))

\* ------------------------------------------------------------------------
\* Regular expression steps.  A position is 1-based; 0 means "no match".
\* Each step takes the position reached so far and returns the position
\* after what it consumed.
\* ------------------------------------------------------------------------
\* a literal, under re.I
ReLit(s, i, lit) == IF i > 0 /\ MatchAtCI(s, i, lit) THEN i + Len(lit) ELSE 0
\* \s*
ReSp0(s, i) == IF i > 0 THEN RunEnd(s, i, Spaces) ELSE 0
\* \s+
ReSp1(s, i) ==
    IF i > 0 /\ i <= Len(s) /\ Char(s, i) \in Spaces THEN RunEnd(s, i, Spaces) ELSE 0
\* [\d.]+ followed by something that is no digit and no dot: the whole run
ReNum(s, i) ==
    IF i > 0 /\ i <= Len(s) /\ Char(s, i) \in DigitDot THEN RunEnd(s, i, DigitDot) ELSE 0
\* \d+
ReDigits1(s, i) ==
    IF i > 0 /\ i <= Len(s) /\ Char(s, i) \in Digits THEN RunEnd(s, i, Digits) ELSE 0
\* \d{n}
ReDigitsN(s, i, n) ==
    IF i > 0 /\ i + n - 1 <= Len(s) /\ \A k \in 0..(n - 1) : Char(s, i + k) \in Digits
    THEN i + n ELSE 0

NoMatch == [ok |-> FALSE, start |-> 0, end |-> 0, g1 |-> "", g2 |-> ""]

\* re.search: the match at the leftmost position where the pattern matches;
\* at[i] is the pattern's match at position i of the searched text
ReSearch(at) ==
    LET hits == {i \in DOMAIN at : at[i].ok}
    IN  IF hits = {} THEN NoMatch ELSE at[SetMin(hits)]

\* ([\d.]+)\s*ha\s*=\s*([\d.]+)%\s*field   (re.I)
TotalHaPctAt(s, i) ==
    LET a == ReNum(s, i)
        b == ReLit(s, ReSp0(s, a), "ha")
        c == ReSp0(s, ReLit(s, ReSp0(s, b), "="))
        d == ReNum(s, c)
        e == ReLit(s, ReSp0(s, ReLit(s, d, "%")), "field")
    IN  IF e > 0
        THEN [ok |-> TRUE, start |-> i, end |-> e,
              g1 |-> SubSeq(s, i, a - 1), g2 |-> SubSeq(s, c, d - 1)]
        ELSE NoMatch

\* ([\d.]+)%\s*field   (re.I)
PctFieldAt(s, i) ==
    LET a == ReNum(s, i)
        e == ReLit(s, ReSp0(s, ReLit(s, a, "%")), "field")
    IN  IF e > 0
        THEN [ok |-> TRUE, start |-> i, end |-> e, g1 |-> SubSeq(s, i, a - 1), g2 |-> ""]
        ELSE NoMatch

\* ([\d.]+)\s*Hectare   (re.I)
HectareAt(s, i) ==
    LET a == ReNum(s, i)
        e == ReLit(s, ReSp0(s, a), "Hectare")
    IN  IF e > 0
        THEN [ok |-> TRUE, start |-> i, end |-> e, g1 |-> SubSeq(s, i, a - 1), g2 |-> ""]
        ELSE NoMatch

\* BBCH\s*\d+|BBCH\d+   (re.I); the second alternative matches nothing the
\* first does not
BBCHAt(s, i) ==
    LET e == ReDigits1(s, ReSp0(s, ReLit(s, i, "BBCH")))
    IN  IF e > 0
        THEN [ok |-> TRUE, start |-> i, end |-> e, g1 |-> SubSeq(s, i, e - 1), g2 |-> ""]
        ELSE NoMatch

\* (\d{2}-\d{2}-\d{4})
DateAt(s, i) ==
    LET e == ReDigitsN(s, ReLit(s, ReDigitsN(s, ReLit(s, ReDigitsN(s, i, 2), "-"), 2), "-"), 4)
    IN  IF e > 0
        THEN [ok |-> TRUE, start |-> i, end |-> e, g1 |-> SubSeq(s, i, e - 1), g2 |-> ""]
        ELSE NoMatch

\* Survey\s+date:\s*(\d{2}-\d{2}-\d{4})   (re.I)
SurveyDateAt(s, i) ==
    LET a == ReSp0(s, ReLit(s, ReSp1(s, ReLit(s, i, "Survey")), "date:"))
        m == IF a > 0 THEN DateAt(s, a) ELSE NoMatch
    IN  IF m.ok THEN [m EXCEPT !.start = i] ELSE NoMatch

\* ------------------------------------------------------------------------
\* AnalysisTypeConfig.TYPES.  A level's pattern
\*     \bW1\s+...\s+Wn\s+([\d.]+)%\s+([\d.]+)\b
\* is kept as the list of its words W1..Wn; exclude_context is "" when the
\* level declares none.
\* ------------------------------------------------------------------------
TypeKeys == <<"plant_stress", "flowering">>

TYPES ==
    [plant_stress |->
        [keywords |-> <<"PLANT STRESS", "Plant Stress">>,
         total_area_pattern |-> "total area plant stress:",
         levels |-> <<
            [name |-> "Fine", severity |-> "healthy",
             pattern |-> <<"Fine">>, exclude_context |-> ""],
            [name |-> "Potential Plant Stress", severity |-> "moderate",
             pattern |-> <<"Potential", "Plant", "Stress">>, exclude_context |-> ""],
            [name |-> "Plant Stress", severity |-> "high",
             pattern |-> <<"Plant", "Stress">>, exclude_context |-> "potential"] >>],
     flowering |->
        [keywords |-> <<"FLOWERING", "Flowering">>,
         total_area_pattern |-> "total area flowering:",
         levels |-> <<
            [name |-> "Full Flowering", severity |-> "high",
             pattern |-> <<"Full", "Flowering">>, exclude_context |-> ""],
            [name |-> "Flowering", severity |-> "moderate",
             pattern |-> <<"Flowering">>, exclude_context |-> "full|no"],
            [name |-> "No Flowering", severity |-> "low",
             pattern |-> <<"No", "Flowering">>, exclude_context |-> ""] >>]]

\* self.analysis_config: the bundle of the detected type, or None
ConfigOf(type) == TYPES[type]

\* a variant of _detect_analysis_type that returns the last matching type
DetectLastMatchingType(text) ==
    LET text_lower == Lower(text)
        hit(k) == \E j \in 1..Len(TYPES[TypeKeys[k]].keywords) :
                      Contains(text_lower, Lower(TYPES[TypeKeys[k]].keywords[j]))
        hits   == {k \in 1..Len(TypeKeys) : hit(k)}
    IN  IF hits = {} THEN NoneVal ELSE TypeKeys[SetMax(hits)]

\* _detect_analysis_type: the first type, in declaration order, one of whose
\* keywords, lowered, occurs in the lowered text; NoneVal if none
DetectAnalysisType(text) ==
    LET text_lower == Lower(text)
        hit(k) == \E j \in 1..Len(TYPES[TypeKeys[k]].keywords) :
                      Contains(text_lower, Lower(TYPES[TypeKeys[k]].keywords[j]))
        hits   == {k \in 1..Len(TypeKeys) : hit(k)}
    IN  IF hits = {} THEN NoneVal ELSE TypeKeys[SetMin(hits)]

\* ------------------------------------------------------------------------
\* _extract_levels
\* ------------------------------------------------------------------------
\* W1\s+W2\s+...\s+Wn from position i: the position after Wn
RECURSIVE ReWords(_, _, _)
ReWords(s, i, words) ==
    IF Len(words) = 1 THEN ReLit(s, i, words[1])
    ELSE ReWords(s, ReSp1(s, ReLit(s, i, words[1])), Tail(words))

\* ([\d.]+)\b from position c: the longest prefix of the run of digits and
\* dots that ends at a word boundary
ReNumBoundary(s, c) ==
    LET r    == ReNum(s, c)
        ends == {e \in (c + 1)..r : WordBoundary(s, e)}
    IN  IF r = 0 \/ ends = {} THEN 0 ELSE SetMax(ends)

\* \bW1\s+...\s+Wn\s+([\d.]+)%\s+([\d.]+)\b   (re.I)
LevelAt(s, i, words) ==
    LET a == ReSp1(s, ReWords(s, i, words))
        b == ReNum(s, a)
        c == ReSp1(s, ReLit(s, b, "%"))
        e == IF c > 0 THEN ReNumBoundary(s, c) ELSE 0
    IN  IF WordBoundary(s, i) /\ e > 0
        THEN [ok |-> TRUE, start |-> i, end |-> e,
              g1 |-> SubSeq(s, a, b - 1), g2 |-> SubSeq(s, c, e - 1)]
        ELSE NoMatch

\* re.finditer: the non-overlapping matches from position from on, left to right
RECURSIVE LevelMatches(_, _, _)
LevelMatches(s, words, from) ==
    LET hits == {i \in from..Len(s) : LevelAt(s, i, words).ok}
    IN  IF hits = {} THEN <<>>
        ELSE LET m == LevelAt(s, SetMin(hits), words)
             IN  <<m>> \o LevelMatches(s, words, m.end)

\* str.split("|")
RECURSIVE SplitBar(_)
SplitBar(s) ==
    LET bars == {i \in 1..Len(s) : Char(s, i) = "|"}
    IN  IF bars = {} THEN <<s>>
        ELSE <<SubSeq(s, 1, SetMin(bars) - 1)>>
             \o SplitBar(SubSeq(s, SetMin(bars) + 1, Len(s)))

\* the exclusion guard of one match: some keyword of exclude_context occurs
\* in the (up to) 20 lowered characters before the match
ExcludeContextLen == 20

Excluded(s, m, exclude_context) ==
    /\ exclude_context # ""
    /\ LET start_pos     == m.start - 1
           context_start == Max(0, start_pos - ExcludeContextLen)
           context       == Lower(Slice(s, context_start, start_pos))
           kws           == SplitBar(exclude_context)
       IN  \E k \in 1..Len(kws) : Contains(context, kws[k])

\* key = f"{level_name}_{match.group(1)}_{match.group(2)}"
LevelKey(name, m) == name \o "_" \o m.g1 \o "_" \o m.g2

\* a variant of the loop over the matches of one level that does not skip
\* the keys already seen
RECURSIVE LevelLoopNoSeen(_, _, _, _)
LevelLoopNoSeen(s, cfg, ms, acc) ==
    IF ms = <<>> THEN acc
    ELSE LET m   == Head(ms)
             key == LevelKey(cfg.name, m)
             added(pct, ha) ==
                 [seen   |-> acc.seen \cup {key},
                  levels |-> IF pct.ok /\ ha.ok
                             THEN Append(acc.levels,
                                    [level |-> cfg.name,
                                     severity |-> cfg.severity,
                                     percentage |-> pct.val,
                                     area_hectares |-> ha.val])
                             ELSE acc.levels]
         IN  LevelLoopNoSeen(s, cfg, Tail(ms),
                               IF Excluded(s, m, cfg.exclude_context)
                               THEN acc
                               ELSE added(ParseFloat(m.g1), ParseFloat(m.g2)))

\* the loop over the matches of one level: acc = [levels, seen]
RECURSIVE LevelLoop(_, _, _, _)
LevelLoop(s, cfg, ms, acc) ==
    IF ms = <<>> THEN acc
    ELSE LET m   == Head(ms)
             key == LevelKey(cfg.name, m)
             added(pct, ha) ==
                 [seen   |-> acc.seen \cup {key},
                  levels |-> IF pct.ok /\ ha.ok
                             THEN Append(acc.levels,
                                    [level |-> cfg.name,
                                     severity |-> cfg.severity,
                                     percentage |-> pct.val,
                                     area_hectares |-> ha.val])
                             ELSE acc.levels]
         IN  LevelLoop(s, cfg, Tail(ms),
                         IF Excluded(s, m, cfg.exclude_context) \/ key \in acc.seen
                         THEN acc
                         ELSE added(ParseFloat(m.g1), ParseFloat(m.g2)))

\* the loop over the level configs of the detected type
RECURSIVE ConfigLoop(_, _, _)
ConfigLoop(s, cfgs, acc) ==
    IF cfgs = <<>> THEN acc
    ELSE ConfigLoop(s, Tail(cfgs),
                    LevelLoop(s, Head(cfgs), LevelMatches(s, Head(cfgs).pattern, 1), acc))

\* a variant of _extract_levels that falls back to the first bundle when no
\* type was detected
ExtractLevelsFirstBundle(type, full_text_spaced) ==
    ConfigLoop(full_text_spaced,
               ConfigOf(IF type = NoneVal THEN TypeKeys[1] ELSE type).levels,
               [levels |-> <<>>, seen |-> {}])

\* _extract_levels(full_text_spaced): [levels, seen]; nothing when no type
\* was detected
ExtractLevels(type, full_text_spaced) ==
    IF type = NoneVal THEN [levels |-> <<>>, seen |-> {}]
    ELSE ConfigLoop(full_text_spaced, ConfigOf(type).levels,
                    [levels |-> <<>>, seen |-> {}])

\* ------------------------------------------------------------------------
\* _extract_crop
\* ------------------------------------------------------------------------
CropWindow == 200

excluded_words == {"total", "area", "stress", "field", "growing", "stage",
                   "analysis", "name", "plant", "health", "monitoring", "flowering"}

CropNames == <<"wheat", "corn", "soybean", "rice", "barley", "potato",
               "tomato", "cotton", "canola", "tobacco">>

\* (?:sugar\s+beet|wheat|corn|soybean|rice|barley|potato|tomato|cotton|canola|tobacco)
\* no two alternatives match at the same position
CropNameAt(s, i) ==
    LET sb   == ReLit(s, ReSp1(s, ReLit(s, i, "sugar")), "beet")
        alts == {ReLit(s, i, CropNames[k]) : k \in 1..Len(CropNames)} \ {0}
        e    == IF sb > 0 THEN sb ELSE IF alts = {} THEN 0 ELSE SetMax(alts)
    IN  IF e > 0
        THEN [ok |-> TRUE, start |-> i, end |-> e, g1 |-> SubSeq(s, i, e - 1), g2 |-> ""]
        ELSE NoMatch

\* ([a-z]+\s+[a-z]+)   (re.I)
TwoWordsAt(s, i) ==
    LET a == IF i <= Len(s) /\ Char(s, i) \in Letters THEN RunEnd(s, i, Letters) ELSE 0
        b == ReSp1(s, a)
        e == IF b > 0 /\ b <= Len(s) /\ Char(s, b) \in Letters
             THEN RunEnd(s, b, Letters) ELSE 0
    IN  IF e > 0
        THEN [ok |-> TRUE, start |-> i, end |-> e, g1 |-> SubSeq(s, i, e - 1), g2 |-> ""]
        ELSE NoMatch

\* ([a-z]{4,})   (re.I)
LongWordAt(s, i) ==
    LET e == IF i <= Len(s) /\ Char(s, i) \in Letters THEN RunEnd(s, i, Letters) ELSE 0
    IN  IF e - i >= 4
        THEN [ok |-> TRUE, start |-> i, end |-> e, g1 |-> SubSeq(s, i, e - 1), g2 |-> ""]
        ELSE NoMatch

\* the candidate of one pattern of crop_patterns, stripped; "" when the
\* pattern does not match
CropCandidate(search_text, k) ==
    LET m == CASE k = 1 -> ReSearch([i \in 1..Len(search_text) |-> CropNameAt(search_text, i)])
               [] k = 2 -> ReSearch([i \in 1..Len(search_text) |-> TwoWordsAt(search_text, i)])
               [] k = 3 -> ReSearch([i \in 1..Len(search_text) |-> LongWordAt(search_text, i)])
    IN  IF m.ok THEN Strip(m.g1) ELSE ""

\* _extract_crop(full_text_spaced): the value of result["field"]["crop"]
\* the first pattern whose candidate is not empty and not an excluded word
ExtractCrop(full_text_spaced) ==
    LET crop_label_pos == Find(full_text_spaced, "Crop:")
        search_start   == crop_label_pos + 5
        search_text    == Lower(Slice(full_text_spaced, search_start,
                                      search_start + CropWindow))
        good == {k \in 1..3 : /\ CropCandidate(search_text, k) # ""
                              /\ Lower(CropCandidate(search_text, k)) \notin excluded_words}
    IN  IF crop_label_pos < 0 \/ good = {} THEN NoneVal
        ELSE CropCandidate(search_text, SetMin(good))

\* ------------------------------------------------------------------------
\* _extract_growing_stage, _extract_field_area
\* ------------------------------------------------------------------------
StageWindow == 100

ExtractGrowingStage(full_text_spaced) ==
    LET stage_label_pos == Find(full_text_spaced, "Growing stage:")
        search_text == Slice(full_text_spaced, stage_label_pos,
                             stage_label_pos + StageWindow)
        m1 == ReSearch([i \in 1..Len(search_text) |-> BBCHAt(search_text, i)])
        m2 == ReSearch([i \in 1..Len(full_text_spaced) |-> BBCHAt(full_text_spaced, i)])
    IN  IF stage_label_pos < 0 THEN NoneVal
        ELSE IF m1.ok THEN Strip(m1.g1)
        ELSE IF m2.ok THEN Strip(m2.g1)
        ELSE NoneVal

AreaWindow == 100

\* float(area_match.group(1)), None on no match or ValueError
AreaValue(m) ==
    LET value(area) == IF m.ok /\ area.ok THEN area.val ELSE NoneVal
    IN  value(ParseFloat(m.g1))

\* with the label present only the window after it is searched; the whole
\* text is searched only when the label is absent
ExtractFieldArea(full_text_spaced) ==
    LET area_label_pos == Find(full_text_spaced, "Field area:")
        search_text == IF area_label_pos >= 0
                       THEN Slice(full_text_spaced, area_label_pos,
                                  area_label_pos + AreaWindow)
                       ELSE full_text_spaced
    IN  AreaValue(ReSearch([i \in 1..Len(search_text) |-> HectareAt(search_text, i)]))

\* ------------------------------------------------------------------------
\* _extract_total_area
\* ------------------------------------------------------------------------
TotalWindowAfter == 200
TotalWindowBefore == 100

\* the try-block of a "X ha = Y% field" match m on wa = [ha, pct]: hectares
\* is assigned before the percentage is parsed; done = the block returned
TryHaPct(wa, m) ==
    LET parsed(h, q) ==
            IF ~m.ok \/ ~h.ok THEN [wa |-> wa, done |-> FALSE]
            ELSE IF ~q.ok THEN [wa |-> [wa EXCEPT !.ha = h.val], done |-> FALSE]
            ELSE [wa |-> [ha |-> h.val, pct |-> q.val], done |-> TRUE]
    IN  parsed(ParseFloat(m.g1), ParseFloat(m.g2))

\* the try-block of a "Y% field" match
TryPct(wa, m) ==
    LET parsed(q) ==
            IF m.ok /\ q.ok THEN [wa |-> [wa EXCEPT !.pct = q.val], done |-> TRUE]
            ELSE [wa |-> wa, done |-> FALSE]
    IN  parsed(ParseFloat(m.g1))

\* the searches of _extract_total_area, in order, from wa on: a search is
\* [both, text], the "X ha = Y% field" pattern (both) or the "Y% field"
\* pattern in text; the first search whose try-block returns ends them
RECURSIVE TrySearches(_, _)
TrySearches(wa, searches) ==
    IF searches = <<>> THEN wa
    ELSE LET text == Head(searches).text
             rest(t) == IF t.done THEN t.wa ELSE TrySearches(t.wa, Tail(searches))
         IN  rest(IF Head(searches).both
                  THEN TryHaPct(wa, ReSearch([i \in 1..Len(text) |-> TotalHaPctAt(text, i)]))
                  ELSE TryPct(wa, ReSearch([i \in 1..Len(text) |-> PctFieldAt(text, i)])))

\* a variant of _extract_total_area that tries the "Y% field" pattern of the
\* window after the label before the "X ha = Y% field" pattern
ExtractTotalAreaPctFirst(type, lower_full_spaced) ==
    LET total_label_pos == Find(lower_full_spaced, ConfigOf(type).total_area_pattern)
        search_text_after == Slice(lower_full_spaced, total_label_pos,
                                   total_label_pos + TotalWindowAfter)
    IN  IF type = NoneVal THEN [ha |-> NoneVal, pct |-> NoneVal]
        ELSE TrySearches([ha |-> NoneVal, pct |-> NoneVal],
                 (IF total_label_pos >= 0
                  THEN <<[both |-> FALSE, text |-> search_text_after],
                         [both |-> TRUE, text |-> search_text_after]>>
                  ELSE <<>>)
                 \o <<[both |-> TRUE, text |-> lower_full_spaced],
                       [both |-> FALSE, text |-> lower_full_spaced]>>)

\* _extract_total_area(lower_full_spaced): [ha, pct], the values of
\* total_area_hectares and total_area_percent.  With the label present,
\* pattern 1 and pattern 2 in the window after it and pattern 3 in the
\* window before it; then fallback 1 and fallback 2 on the whole text
ExtractTotalArea(type, lower_full_spaced) ==
    LET total_label_pos == Find(lower_full_spaced, ConfigOf(type).total_area_pattern)
        search_text_after == Slice(lower_full_spaced, total_label_pos,
                                   total_label_pos + TotalWindowAfter)
        search_text_before == Slice(lower_full_spaced,
                                    Max(0, total_label_pos - TotalWindowBefore),
                                    total_label_pos)
    IN  IF type = NoneVal THEN [ha |-> NoneVal, pct |-> NoneVal]
        ELSE TrySearches([ha |-> NoneVal, pct |-> NoneVal],
                 (IF total_label_pos >= 0
                  THEN <<[both |-> TRUE, text |-> search_text_after],
                         [both |-> FALSE, text |-> search_text_after],
                         [both |-> FALSE, text |-> search_text_before]>>
                  ELSE <<>>)
                 \o <<[both |-> TRUE, text |-> lower_full_spaced],
                       [both |-> FALSE, text |-> lower_full_spaced]>>)

\* ------------------------------------------------------------------------
\* _calculate_total_from_levels
\* ------------------------------------------------------------------------
\* total_hectares = 0.0, then += level["area_hectares"] for the counted
\* levels in list order: a sum of doubles, as a double
RECURSIVE SumHectares(_, _)
SumHectares(levels, counted) ==
    IF levels = <<>> THEN FZero
    ELSE LET front == SumHectares(SubSeq(levels, 1, Len(levels) - 1), counted)
             last  == levels[Len(levels)]
         IN  IF last.severity \in counted
             THEN FAdd(front, Float(last.area_hectares)) ELSE front

\* the severities summed for an analysis type
CountedSeverities(type) ==
    IF type \in {"flowering", "plant_stress"} THEN {"high", "moderate"}
    ELSE {"healthy", "low", "moderate", "high"} \ {"healthy", "low"}

\* a variant of _calculate_total_from_levels that cuts the sum to
\* hundredths instead of rounding it
CalculateTotalTruncated(type, wa, levels) ==
    LET total_hectares == SumHectares(levels, CountedSeverities(type))
        c == BigMulAdd(total_hectares.m, 100, 0)
    IN  IF wa.ha = NoneVal /\ levels # <<>> /\ total_hectares # FZero
        THEN PointNumeral(BigDigits(IF total_hectares.e >= 0
                                    THEN BigShl(c, total_hectares.e)
                                    ELSE BigShr(c, -total_hectares.e)), 2)
        ELSE wa.ha

\* the value of total_area_hectares after _calculate_total_from_levels
CalculateTotalFromLevels(type, wa, levels) ==
    LET total_hectares == SumHectares(levels, CountedSeverities(type))
    IN  IF wa.ha = NoneVal /\ levels # <<>> /\ total_hectares # FZero
        THEN Round2(total_hectares)
        ELSE wa.ha

\* ------------------------------------------------------------------------
\* Survey date, report type, analysis name, additional info
\* ------------------------------------------------------------------------
ExtractSurveyDate(full_text_spaced) ==
    LET m1 == ReSearch([i \in 1..Len(full_text_spaced) |-> SurveyDateAt(full_text_spaced, i)])
        m2 == ReSearch([i \in 1..Len(full_text_spaced) |-> DateAt(full_text_spaced, i)])
    IN  IF m1.ok THEN m1.g1 ELSE IF m2.ok THEN m2.g1 ELSE NoneVal

\* two independent tests: the second overwrites the first
ExtractReportType(full_text) ==
    IF Contains(full_text, "Plant Health Monitoring") THEN "Plant Health Monitoring"
    ELSE IF Contains(full_text, "Crop Monitoring") THEN "Crop Monitoring"
    ELSE NoneVal

\* (?:\s+(?:Growing|Field|STRESS|Total|Additional)|$) at position e   (re.I)
NameEndAt(s, e) ==
    \/ e = Len(s) + 1
    \/ e = Len(s) /\ Char(s, e) = "\n"
    \/ LET a == ReSp1(s, e)
       IN  \E w \in {"Growing", "Field", "STRESS", "Total", "Additional"} :
               ReLit(s, a, w) > 0

\* Analysis\s+name:\s*([\w\s]+?)(?:\s+(?:Growing|Field|STRESS|Total|Additional)|$)
\* \s* gives characters back from its longest run (g) until the lazy group
\* finds its shortest end (e) inside the run of [\w\s] characters
AnalysisNameAt(s, i) ==
    LET a    == ReLit(s, ReSp1(s, ReLit(s, i, "Analysis")), "name:")
        g0   == ReSp0(s, a)
        r    == RunEnd(s, g0, WordOrSpace)
        ends(g) == {e \in (g + 1)..r : NameEndAt(s, e)}
        gs   == {g \in a..g0 : ends(g) # {}}
    IN  IF a > 0 /\ gs # {}
        THEN [ok |-> TRUE, start |-> i, end |-> SetMin(ends(SetMax(gs))),
              g1 |-> SubSeq(s, SetMax(gs), SetMin(ends(SetMax(gs))) - 1), g2 |-> ""]
        ELSE NoMatch

NameMaxLen == 50

\* the explicit name is accepted: it does not contain "STRESS LEVEL" in any
\* letter case and is shorter than 50 characters
AcceptedName(m) ==
    m.ok /\ ~Contains(Lower(Strip(m.g1)), "stress level") /\ Len(Strip(m.g1)) < NameMaxLen

\* the fallback: the first keyword of the detected type that occurs, in its
\* own letter case, in full_text
KeywordFallback(type, full_text) ==
    LET kws  == ConfigOf(type).keywords
        hits == {k \in 1..Len(kws) : Contains(full_text, kws[k])}
    IN  IF hits = {} THEN NoneVal ELSE kws[SetMin(hits)]

\* the value of result["report"]["analysis_name"]: an accepted empty name is
\* stored and, being falsy, does not stop the fallback
ExtractAnalysisName(type, full_text, full_text_spaced) ==
    LET m == ReSearch([i \in 1..Len(full_text_spaced) |-> AnalysisNameAt(full_text_spaced, i)])
    IN  IF AcceptedName(m) /\ Strip(m.g1) # "" THEN Strip(m.g1)
        ELSE IF type # NoneVal /\ KeywordFallback(type, full_text) # NoneVal
             THEN KeywordFallback(type, full_text)
        ELSE IF AcceptedName(m) THEN "" ELSE NoneVal

\* Additional\s+Information\s*\(or\s+recommendation\):\s*(.+?)(?:\s+Powered|$)
\* (re.I | re.DOTALL)
InfoEndAt(s, e) ==
    \/ e = Len(s) + 1
    \/ e = Len(s) /\ Char(s, e) = "\n"
    \/ ReLit(s, ReSp1(s, e), "Powered") > 0

AdditionalInfoAt(s, i) ==
    LET a  == ReLit(s, ReSp1(s, ReLit(s, ReSp0(s,
                  ReLit(s, ReSp1(s, ReLit(s, i, "Additional")), "Information")),
                  "(or")), "recommendation):")
        g0 == ReSp0(s, a)
        g  == IF g0 <= Len(s) THEN g0 ELSE g0 - 1
        e  == SetMin({x \in (g + 1)..(Len(s) + 1) : InfoEndAt(s, x)})
    IN  IF a > 0 /\ g >= a
        THEN [ok |-> TRUE, start |-> i, end |-> e, g1 |-> SubSeq(s, g, e - 1), g2 |-> ""]
        ELSE NoMatch

InfoMaxLen == 200

ExtractAdditionalInfo(full_text, full_text_spaced) ==
    LET m       == ReSearch([i \in 1..Len(full_text_spaced) |-> AdditionalInfoAt(full_text_spaced, i)])
        comment == Strip(m.g1)
    IN  IF Contains(full_text, "Test comment") THEN "Test comment"
        ELSE IF ~m.ok THEN NoneVal
        ELSE IF Contains(comment, "Test comment") THEN "Test comment"
        ELSE IF Len(comment) < InfoMaxLen THEN comment
        ELSE NoneVal

\* ------------------------------------------------------------------------
\* Block normalizer (the first lines of _parse_page1_text)
\* ------------------------------------------------------------------------
MinBlockLen == 3

\* [b[4].strip() for b in blocks if len(b[4].strip()) > 3]
KeptBlocks(blocks) ==
    SelectSeq([i \in 1..Len(blocks) |-> Strip(blocks[i])],
              LAMBDA b : Len(b) > MinBlockLen)

\* sep.join(parts)
RECURSIVE Join(_, _)
Join(parts, sep) ==
    IF parts = <<>> THEN ""
    ELSE IF Len(parts) = 1 THEN parts[1]
    ELSE parts[1] \o sep \o Join(Tail(parts), sep)

FullText(blocks) == Join(KeptBlocks(blocks), "\n")
FullTextSpaced(blocks) == Join(KeptBlocks(blocks), " ")

\* ------------------------------------------------------------------------
\* The result record
\* ------------------------------------------------------------------------
\* _init_result_structure
InitResult(d) ==
    [metadata |-> [total_pages |-> d.pages, extractor_version |-> "3.0-unified"],
     report |-> [provider |-> "Agremo", type |-> NoneVal, survey_date |-> NoneVal,
                 analysis_name |-> NoneVal, detected_analysis_type |-> NoneVal],
     field |-> [crop |-> NoneVal, growing_stage |-> NoneVal, area_hectares |-> NoneVal],
     weed_analysis |-> [total_area_hectares |-> NoneVal,
                        total_area_percent |-> NoneVal, levels |-> <<>>],
     additional_info |-> NoneVal,
     map_image |-> [source |-> NoneVal, url |-> NoneVal, public_id |-> NoneVal,
                    width |-> NoneNum, height |-> NoneNum, format |-> NoneVal,
                    bytes |-> NoneNum, error |-> NoneVal]]

\* result before any call
NoResult == [metadata |-> NoneVal]

\* _parse_page1_text: the result after it, from the result r before it
ParsePage1Text(r, blocks) ==
    LET full_text         == FullText(blocks)
        full_text_spaced  == FullTextSpaced(blocks)
        lower_full_spaced == Lower(full_text_spaced)
        type              == DetectAnalysisType(full_text)
        totals(wa)        == [r.weed_analysis EXCEPT
                                  !.total_area_hectares = wa.ha,
                                  !.total_area_percent = wa.pct]
    IN  [r EXCEPT
            !.report.detected_analysis_type = type,
            !.report.survey_date = ExtractSurveyDate(full_text_spaced),
            !.report.type = ExtractReportType(full_text),
            !.report.analysis_name =
                ExtractAnalysisName(type, full_text, full_text_spaced),
            !.field.crop = ExtractCrop(full_text_spaced),
            !.field.growing_stage = ExtractGrowingStage(full_text_spaced),
            !.field.area_hectares = ExtractFieldArea(full_text_spaced),
            !.weed_analysis = totals(ExtractTotalArea(type, lower_full_spaced)),
            !.weed_analysis.levels = ExtractLevels(type, full_text_spaced).levels,
            !.additional_info = ExtractAdditionalInfo(full_text, full_text_spaced)]

\* ------------------------------------------------------------------------
\* _upload_to_cloudinary and _extract_map_image
\* ------------------------------------------------------------------------
\* the wall clock advances in ticks finer than the "%S" field of strftime:
\* two calls of datetime.now() can fall in the same second
TicksPerSecond == 2

\* datetime.now().strftime("%Y%m%d_%H%M%S"): the clock cut to whole seconds
Timestamp(t) == ToString(t \div TicksPerSecond)

\* public_id = f"agremo_map_{timestamp}"
PublicId(t) == "agremo_map_" \o Timestamp(t)

\* the call cloudinary.uploader.upload(image_bytes, public_id=..., overwrite=False)
\* made by extraction e at clock t
UploadCallOf(e, t) == [extraction |-> e, public_id |-> PublicId(t), overwrite |-> FALSE]

UploadOutcomes == {"ok", "ok_bare", "cloudinary_error", "exception"}

\* _upload_to_cloudinary: what it returns for an image under each outcome of
\* cloudinary.uploader.upload: a full response, a response without the
\* optional fields, a CloudinaryError, any other exception
UploadToCloudinary(image, outcome) ==
    CASE outcome = "ok" ->
            [url |-> "secure_url", public_id |-> "public_id",
             width |-> image.width, height |-> image.height,
             format |-> Lower(image.format), bytes |-> image.size]
      [] outcome = "ok_bare" ->
            [url |-> "secure_url", public_id |-> "public_id",
             width |-> NoneNum, height |-> NoneNum,
             format |-> NoneVal, bytes |-> NoneNum]
      [] outcome = "cloudinary_error" ->
            [error |-> "Cloudinary upload failed: service error"]
      [] outcome = "exception" ->
            [error |-> "connection reset"]

\* max(images_data, key=size): the first image of the largest size
LargestImage(images) ==
    LET big == {i \in 1..Len(images) : \A j \in 1..Len(images) :
                    images[j].size <= images[i].size}
    IN  images[SetMin(big)]

RenderDpi == 150
PointsPerInch == 72

\* pix = page.get_pixmap(matrix=Matrix(150/72, 150/72)); pix.tobytes("png"),
\* pix.width, pix.height. get_pixmap rounds the scaled page rectangle outward
\* to whole pixels (near edge 0, far edge ceil(points * 150/72 - 0.001)),
\* which for a whole number of points is the ceiling of points * 150 / 72:
\* a page of 595 x 842 points gives 1240 x 1755 pixels. The PNG bytes are
\* never empty; size is their length, some positive number.
RenderPage(page) ==
    LET pixels(points) == (points * RenderDpi + PointsPerInch - 1) \div PointsPerInch
    IN  [size |-> 1 + pixels(page.width),
         format |-> "png", source |-> "page_render", broken |-> FALSE,
         width |-> pixels(page.width),
         height |-> pixels(page.height)]

\* _extract_map_image(page_num): the dict it returns; d.images are the
\* embedded images of page 1 (the second page), outcome the upload's
ExtractMapImageResult(d, page_num, outcome) ==
    LET image == IF d.images # <<>>
                 THEN [LargestImage(d.images) EXCEPT !.source = "embedded"]
                 ELSE RenderPage(d.page)
        upload_result == UploadToCloudinary(image, outcome)
    IN  IF page_num >= d.pages THEN [error |-> "Page not found"]
        ELSE IF image.size = 0
             THEN [error |-> "Could not extract or render map image"]
        ELSE IF "error" \in DOMAIN upload_result
             THEN [source |-> image.source, error |-> upload_result.error,
                   width |-> image.width, height |-> image.height,
                   format |-> image.format]
        ELSE [source |-> "cloudinary", url |-> upload_result.url,
              public_id |-> upload_result.public_id,
              width |-> upload_result.width, height |-> upload_result.height,
              format |-> upload_result.format, bytes |-> upload_result.bytes]

\* bool(self.doc): fitz.Document defines __len__ (the page count) and no
\* __bool__, so a document without pages is falsy

\* AgremoReportExtractor.close: the handle state after it
CloseHandle(d) == IF d.pages # 0 THEN "closed" ELSE d.handle

\* ------------------------------------------------------------------------
\* Inputs: the documents and the requests the entry points are run on
\* ------------------------------------------------------------------------
MaxBlocks == 3

\* a block of 170 characters without a digit: it moves what follows a label
\* out of the 200-character window after it
Filler ==
    "Powered by Agremo Powered by Agremo Powered by Agremo Powered by Agremo Powered by Agremo Powered by Agremo Powered by Agremo Powered by Agremo Powered by Agremo Powered "

\* families of page-1 text blocks; a page is a sequence of at most MaxBlocks
\* blocks of one family
TotalBlocks ==
    {"Total area PLANT STRESS:", "22.04 ha = 69% field", "6.58% field",
     "3.5 ha = 150% field", "Plant Stress 69% 21.503", Filler}
\* (the third block has twelve spaces between "Potential" and "Plant": the
\* level patterns allow any run of whitespace between the words of a row)
StressBlocks ==
    {"Potential Plant Stress 10% 2.675", "POTENTIAL\rPLANT STRESS 7.5% 1.5",
     "Potential            Plant Stress 4% 1.25",
     "Plant Stress 69% 21.5035", "Plant Stress 0% 0",
     "Fine 12.0% 3.0", "Fine 12% 3"}
FloweringBlocks ==
    {"Full Flowering 5% 1.203", "Flowering 6% 1.3", "No Flowering 89% 20",
     "Total area FLOWERING:", "6.58% field", "Full Flowering 1.2.3% 4"}
CropBlocks ==
    {"Crop:", "Total area", "Total", "sugar beet", "oat",
     "Analysis name: Plant Stress"}
PlainBlocks ==
    {"Fine 31% 14.05", "22.04 ha = 69% field",
     "Survey date: 01-02-2024 Crop: wheat",
     "Growing stage: BBCH69 Field area: 45.30 Hectare",
     "Additional Information (or recommendation): spray soon Powered by Agremo",
     "Flowering or plant STRESS"}
AreaBlocks ==
    {"Field area:", Filler, "45.30 Hectare", "Analysis name: None"}

BlockFamilies ==
    {TotalBlocks, StressBlocks, FloweringBlocks, CropBlocks, PlainBlocks, AreaBlocks}


Pages1 == UNION {[1..k -> F] : k \in 0..MaxBlocks, F \in BlockFamilies}

\* an embedded image of the second page
\* (broken: doc.extract_image raises on it)
Img(size, w, h, fmt) ==
    [size |-> size, width |-> w, height |-> h, format |-> fmt, source |-> "embedded",
     broken |-> FALSE]

ImageLists ==
    {<<>>,
     <<Img(500, 16, 16, "png"), Img(50000, 800, 600, "jpeg")>>,
     <<Img(0, 0, 0, "png")>>,
     <<[Img(500, 16, 16, "png") EXCEPT !.broken = TRUE]>>}

\* a PDF file as fitz sees it
Document(pages, blocks, images, openable) ==
    [pages |-> pages, blocks |-> blocks, images |-> images, page |-> [width |-> 595, height |-> 842],
     openable |-> openable, handle |-> "unopened"]

\* the documents extract_pdf_report is run on: every page-1 text on a
\* one-page document, and a few texts on documents of every other shape
Documents ==
    {Document(1, b, <<>>, TRUE) : b \in Pages1}
    \cup {Document(2, b, im, TRUE) : b \in {<<>>, <<"Total area PLANT STRESS:", "22.04 ha = 69% field",
                                             "Fine 12.0% 3.0">>}, im \in ImageLists}
    \cup {Document(0, <<>>, <<>>, TRUE), Document(1, <<>>, <<>>, FALSE)}

\* ------------------------------------------------------------------------
\* base64.b64decode(s) with validate=False (binascii.a2b_base64): characters
\* outside the alphabet are skipped, a completed run of "=" ends the input,
\* and data that stops inside a group of four is an error (binascii.Error)
\* ------------------------------------------------------------------------
B64Alphabet == "ABCDEFGHIJKLMNOPQRSTUVWXYZabcdefghijklmnopqrstuvwxyz0123456789+/"

B64Index(c) ==
    LET hits == {k \in 1..Len(B64Alphabet) : Char(B64Alphabet, k) = c}
    IN  IF hits = {} THEN -1 ELSE SetMin(hits) - 1

\* st = [quad_pos, pads, leftchar, out, stop]
B64Step(st, c) ==
    LET v == B64Index(c)
        q == st.quad_pos
    IN  IF c = "="
        THEN IF q >= 2 /\ q + st.pads + 1 >= 4
             THEN [st EXCEPT !.pads = st.pads + 1, !.stop = TRUE]
             ELSE IF q >= 2 THEN [st EXCEPT !.pads = st.pads + 1] ELSE st
        ELSE IF v < 0 THEN st
        ELSE CASE q = 0 -> [st EXCEPT !.quad_pos = 1, !.pads = 0, !.leftchar = v]
               [] q = 1 -> [st EXCEPT !.quad_pos = 2, !.pads = 0,
                               !.out = Append(st.out, st.leftchar * 4 + v \div 16),
                               !.leftchar = v % 16]
               [] q = 2 -> [st EXCEPT !.quad_pos = 3, !.pads = 0,
                               !.out = Append(st.out, st.leftchar * 16 + v \div 4),
                               !.leftchar = v % 4]
               [] q = 3 -> [st EXCEPT !.quad_pos = 0, !.pads = 0,
                               !.out = Append(st.out, st.leftchar * 64 + v),
                               !.leftchar = 0]

RECURSIVE B64Loop(_, _, _)
B64Loop(s, i, st) ==
    IF i > Len(s) \/ st.stop THEN st ELSE B64Loop(s, i + 1, B64Step(st, Char(s, i)))

\* [ok, bytes]: ok = FALSE is binascii.Error
B64Decode(s) ==
    LET st == B64Loop(s, 1, [quad_pos |-> 0, pads |-> 0, leftchar |-> 0,
                             out |-> <<>>, stop |-> FALSE])
    IN  IF st.quad_pos # 0 /\ ~st.stop
        THEN [ok |-> FALSE, bytes |-> <<>>]
        ELSE [ok |-> TRUE, bytes |-> st.out]

\* settings.max_file_size: 10MB unless the environment sets it
DefaultMaxFileSize == 10 * 1024 * 1024

\* b'%PDF'
PdfMagic == <<37, 80, 68, 70>>

\* the file a pdfPath names
PathFile(exists, readable, is_dir, size, bytes) ==
    [given |-> TRUE, exists |-> exists, readable |-> readable, is_dir |-> is_dir,
     size |-> size, bytes |-> bytes]

NoPath == [given |-> FALSE, exists |-> FALSE, readable |-> FALSE, is_dir |-> FALSE,
           size |-> 0, bytes |-> <<>>]

PdfBytes == <<37, 80, 68, 70, 45, 49>>

Paths ==
    {NoPath,
     PathFile(FALSE, FALSE, FALSE, 0, <<>>),
     PathFile(TRUE, FALSE, FALSE, 6, PdfBytes),
     PathFile(TRUE, TRUE, TRUE, 6, <<>>),
     PathFile(TRUE, TRUE, FALSE, 6, PdfBytes),
     PathFile(TRUE, TRUE, FALSE, DefaultMaxFileSize, PdfBytes),
     PathFile(TRUE, TRUE, FALSE, DefaultMaxFileSize + 1, PdfBytes),
     PathFile(TRUE, TRUE, FALSE, 6, <<60, 104, 116, 109, 108, 62>>),
     PathFile(TRUE, TRUE, FALSE, 2, <<37, 80>>)}

\* pdfContent: None is "" here, both are falsy
Contents ==
    {"", "JVBERi0x", "JVBE Ri0x!", "JVBERg==", "JVBERi0", "J", "PGh0bWw+", "!!!!", "JVA="}

\* what the environment decides for one request: the size limit, whether
\* the temporary file can be created and written, and what fitz makes of
\* the PDF bytes (can it be opened, and with how many pages)
Requests ==
    {[pdfContent |-> c, pdfPath |-> p, max_file_size |-> m, temp |-> t,
      openable |-> f[1], pages |-> f[2]] :
        c \in Contents, p \in Paths, m \in {DefaultMaxFileSize, 5},
        t \in {"ok", "create_fails", "write_fails"},
        f \in {<<FALSE, 0>>, <<TRUE, 0>>, <<TRUE, 1>>, <<TRUE, 2>>}}

NoRequest == [pdfContent |-> "", pdfPath |-> NoPath, max_file_size |-> DefaultMaxFileSize,
              temp |-> "ok", openable |-> TRUE, pages |-> 0]

NoResponse == [kind |-> "none", success |-> FALSE, data |-> FALSE, error |-> ""]
\* ExtractResponse(success=False, error=msg)
Failure(msg) == [kind |-> "envelope", success |-> FALSE, data |-> FALSE, error |-> msg]
\* ExtractResponse(success=True, extractedData=extracted_data)
Success == [kind |-> "envelope", success |-> TRUE, data |-> TRUE, error |-> ""]
\* extract_pdf_report returns the record, or lets the exception through
Returned == [kind |-> "record", success |-> TRUE, data |-> TRUE, error |-> ""]
Raised(msg) == [kind |-> "raised", success |-> FALSE, data |-> FALSE, error |-> msg]

\* ------------------------------------------------------------------------
\* The state machine
\* ------------------------------------------------------------------------

Init ==
    /\ analysis_type = NoneVal
    /\ result = NoResult
    /\ seen = {}
    /\ upload = "none"
    /\ constructed = FALSE
    /\ temp_file = "none"
    /\ response = NoResponse
    /\ now = 0
    /\ uploads = <<>>
    /\ \/ /\ caller = "extract_pdf_report"
          /\ pc = "construct"
          /\ doc \in Documents
          /\ request = NoRequest
       \/ /\ caller = "extract_drone_data"
          /\ pc = "http_prepare"
          /\ request \in Requests
          /\ doc = Document(request.pages, <<>>, <<>>, request.openable)

\* extract_pdf_report, line 532: AgremoReportExtractor(pdf_path), outside the
\* try; fitz.open raises on a file it cannot open
Construct ==
    /\ pc = "construct"
    /\ constructed' = TRUE
    /\ IF doc.openable
       THEN /\ doc' = [doc EXCEPT !.handle = "open"]
            /\ result' = InitResult(doc)
            /\ pc' = "extract"
            /\ UNCHANGED response
       ELSE /\ response' = Raised("cannot open document")
            /\ pc' = "done"
            /\ UNCHANGED <<doc, result>>
    /\ UNCHANGED <<caller, analysis_type, seen, upload, request, temp_file>>
    /\ UNCHANGED <<now, uploads>>

\* extract(), lines 512-514: _parse_page1_text when there is a first page
ParsePage1 ==
    /\ pc = "extract"
    /\ IF doc.pages >= 1
       THEN /\ result' = ParsePage1Text(result, doc.blocks)
            /\ analysis_type' = DetectAnalysisType(FullText(doc.blocks))
            /\ seen' = ExtractLevels(DetectAnalysisType(FullText(doc.blocks)),
                                     FullTextSpaced(doc.blocks)).seen
            /\ pc' = "calculate"
       ELSE /\ pc' = "map"
            /\ UNCHANGED <<result, analysis_type, seen>>
    /\ UNCHANGED <<caller, doc, upload, request, constructed, temp_file, response>>
    /\ UNCHANGED <<now, uploads>>

\* extract(), line 517: _calculate_total_from_levels
CalculateTotal ==
    /\ pc = "calculate"
    /\ result' = [result EXCEPT !.weed_analysis.total_area_hectares =
                     CalculateTotalFromLevels(analysis_type,
                        [ha |-> result.weed_analysis.total_area_hectares,
                         pct |-> result.weed_analysis.total_area_percent],
                        result.weed_analysis.levels)]
    /\ pc' = "map"
    /\ UNCHANGED <<caller, doc, analysis_type, seen, upload, request, constructed,
                   temp_file, response>>
    /\ UNCHANGED <<now, uploads>>

\* a variant of the map-image step of extract() in which a failed upload
\* raises instead of being recorded in the result
ExtractMapImageUploadRaises ==
    /\ pc = "map"
    /\ IF doc.pages < 2
       THEN /\ pc' = "return"
            /\ UNCHANGED <<result, upload, response>>
       ELSE IF \E i \in 1..Len(doc.images) : doc.images[i].broken
       THEN /\ response' = Raised("extract_image failed")
            /\ pc' = "close"
            /\ UNCHANGED <<result, upload>>
       ELSE \E outcome \in UploadOutcomes :
            IF "error" \in DOMAIN ExtractMapImageResult(doc, 1, outcome)
               /\ "source" \in DOMAIN ExtractMapImageResult(doc, 1, outcome)
            THEN /\ response' = Raised(ExtractMapImageResult(doc, 1, outcome).error)
                 /\ upload' = outcome
                 /\ pc' = "close"
                 /\ UNCHANGED result
            ELSE /\ result' = [result EXCEPT !.map_image =
                                  ExtractMapImageResult(doc, 1, outcome)]
                 /\ upload' = IF "source" \in DOMAIN ExtractMapImageResult(doc, 1, outcome)
                              THEN outcome ELSE "none"
                 /\ pc' = "return"
                 /\ UNCHANGED response
    /\ UNCHANGED <<caller, doc, analysis_type, seen, request, constructed, temp_file>>
    /\ uploads' = IF upload' # "none"
                  THEN Append(uploads, UploadCallOf(1, now))
                  ELSE uploads
    /\ UNCHANGED now

\* extract(), lines 519-521: _extract_map_image(1) when there is a second
\* page; doc.extract_image raises on a broken image, and the upload is
\* attempted only when there are image bytes
ExtractMapImage ==
    /\ pc = "map"
    /\ IF doc.pages < 2
       THEN /\ pc' = "return"
            /\ UNCHANGED <<result, upload, response>>
       ELSE IF \E i \in 1..Len(doc.images) : doc.images[i].broken
       THEN /\ response' = IF caller = "extract_pdf_report"
                            THEN Raised("extract_image failed")
                            ELSE Failure("Failed to extract PDF data: extract_image failed")
            /\ pc' = IF caller = "extract_pdf_report" THEN "close" ELSE "http_close"
            /\ UNCHANGED <<result, upload>>
       ELSE \E outcome \in UploadOutcomes :
            /\ result' = [result EXCEPT !.map_image =
                             ExtractMapImageResult(doc, 1, outcome)]
            /\ upload' = IF "source" \in DOMAIN ExtractMapImageResult(doc, 1, outcome)
                         THEN outcome ELSE "none"
            /\ pc' = "return"
            /\ UNCHANGED response
    /\ UNCHANGED <<caller, doc, analysis_type, seen, request, constructed, temp_file>>
    /\ uploads' = IF upload' # "none"
                  THEN Append(uploads, UploadCallOf(1, now))
                  ELSE uploads
    /\ UNCHANGED now

\* extract(), line 523, and the return of its caller
Return ==
    /\ pc = "return"
    /\ response' = IF caller = "extract_pdf_report" THEN Returned ELSE Success
    /\ pc' = IF caller = "extract_pdf_report" THEN "close" ELSE "http_close"
    /\ UNCHANGED <<caller, doc, analysis_type, result, seen, upload, request,
                   constructed, temp_file>>
    /\ UNCHANGED <<now, uploads>>

\* extract_pdf_report, lines 536-537: finally: extractor.close()
Close ==
    /\ pc = "close"
    /\ doc' = [doc EXCEPT !.handle = CloseHandle(doc)]
    /\ pc' = "done"
    /\ UNCHANGED <<caller, analysis_type, result, seen, upload, request, constructed,
                   temp_file, response>>
    /\ UNCHANGED <<now, uploads>>

\* ExtractRequest (models.py): the fields a request object has
ExtractRequestFields == {"pdfPath", "pdfContent"}
\* the parameters of AgremoReportExtractor.extract besides self
ExtractParameters == {"output_dir"}

\* the bytes of the file at pdf_path
FileBytes(req) ==
    IF req.pdfContent # "" THEN B64Decode(req.pdfContent).bytes ELSE req.pdfPath.bytes

\* f.read(n): at most n bytes
ReadBytes(bytes, n) == SubSeq(bytes, 1, Min(n, Len(bytes)))

\* extract_drone_data, lines 96-170: choose the input and validate it; the
\* returns are inside the outer try, so its finally runs after each
HttpPrepare ==
    /\ pc = "http_prepare"
    /\ LET decoded == B64Decode(request.pdfContent)
           path    == request.pdfPath
           fail(msg, tmp) == /\ response' = Failure(msg)
                             /\ temp_file' = tmp
                             /\ pc' = "http_cleanup"
           go(tmp) == /\ temp_file' = tmp
                      /\ pc' = "http_header"
                      /\ UNCHANGED response
       IN  IF request.pdfContent # ""
           THEN IF ~decoded.ok THEN fail("Invalid base64 encoding", "none")
                ELSE IF Len(decoded.bytes) > request.max_file_size
                     THEN fail("PDF file exceeds maximum size", "none")
                ELSE IF request.temp = "create_fails"
                     THEN fail("Failed to process PDF content", "none")
                ELSE IF request.temp = "write_fails"
                     THEN fail("Failed to process PDF content", "exists")
                ELSE go("exists")
           ELSE IF path.given
           THEN IF ~path.exists THEN fail("PDF file not found", "none")
                ELSE IF ~path.readable THEN fail("PDF file is not readable", "none")
                ELSE IF path.size > request.max_file_size
                     THEN fail("PDF file exceeds maximum size", "none")
                ELSE go("none")
           ELSE fail("Either pdfPath or pdfContent must be provided", "none")
    /\ UNCHANGED <<caller, doc, analysis_type, result, seen, upload, request, constructed>>
    /\ UNCHANGED <<now, uploads>>

\* a variant of the header validation that does not compare the first four
\* bytes with %PDF
HttpValidateHeaderAnyBytes ==
    /\ pc = "http_header"
    /\ IF request.pdfContent = "" /\ request.pdfPath.is_dir
       THEN /\ response' = Failure("Error validating PDF file")
            /\ pc' = "http_cleanup"
       ELSE /\ pc' = "http_construct"
            /\ UNCHANGED response
    /\ UNCHANGED <<caller, doc, analysis_type, result, seen, upload, request,
                   constructed, temp_file>>
    /\ UNCHANGED <<now, uploads>>

\* lines 172-187: the first four bytes must be %PDF; open() raises on a
\* directory
HttpValidateHeader ==
    /\ pc = "http_header"
    /\ IF request.pdfContent = "" /\ request.pdfPath.is_dir
       THEN /\ response' = Failure("Error validating PDF file")
            /\ pc' = "http_cleanup"
       ELSE IF ReadBytes(FileBytes(request), Len(PdfMagic)) # PdfMagic
       THEN /\ response' = Failure("File is not a valid PDF")
            /\ pc' = "http_cleanup"
       ELSE /\ pc' = "http_construct"
            /\ UNCHANGED response
    /\ UNCHANGED <<caller, doc, analysis_type, result, seen, upload, request,
                   constructed, temp_file>>
    /\ UNCHANGED <<now, uploads>>

\* line 193: extractor = AgremoReportExtractor(pdf_path), inside the try
HttpConstruct ==
    /\ pc = "http_construct"
    /\ constructed' = TRUE
    /\ IF doc.openable
       THEN /\ doc' = [doc EXCEPT !.handle = "open"]
            /\ result' = InitResult(doc)
            /\ pc' = "http_flag"
            /\ UNCHANGED response
       ELSE /\ response' = Failure("Failed to extract PDF data: cannot open document")
            /\ pc' = "http_close"
            /\ UNCHANGED <<doc, result>>
    /\ UNCHANGED <<caller, analysis_type, seen, upload, request, temp_file>>
    /\ UNCHANGED <<now, uploads>>

\* lines 195-196: request.includeImageBase64 is read (AttributeError: the
\* request model has no such field) and extract(include_base64=...) is
\* called (TypeError: extract has no such parameter); except Exception
\* turns either into a failure response
HttpReadFlag ==
    /\ pc = "http_flag"
    /\ IF "includeImageBase64" \notin ExtractRequestFields
       THEN /\ response' = Failure("Failed to extract PDF data: 'ExtractRequest' object has no attribute 'includeImageBase64'")
            /\ pc' = "http_close"
       ELSE IF "include_base64" \notin ExtractParameters
       THEN /\ response' = Failure("Failed to extract PDF data: extract() got an unexpected keyword argument 'include_base64'")
            /\ pc' = "http_close"
       ELSE /\ pc' = "extract"
            /\ UNCHANGED response
    /\ UNCHANGED <<caller, doc, analysis_type, result, seen, upload, request,
                   constructed, temp_file>>
    /\ UNCHANGED <<now, uploads>>

\* lines 211-213: finally: if extractor: extractor.close()
HttpClose ==
    /\ pc = "http_close"
    /\ doc' = IF doc.handle # "unopened"
              THEN [doc EXCEPT !.handle = CloseHandle(doc)] ELSE doc
    /\ pc' = "http_cleanup"
    /\ UNCHANGED <<caller, analysis_type, result, seen, upload, request, constructed,
                   temp_file, response>>
    /\ UNCHANGED <<now, uploads>>

\* lines 215-222: finally: if temp_file_path and os.path.exists(...):
\* os.unlink(temp_file_path), inside try/except Exception that only logs a
\* warning: the file is removed, or os.unlink raises and the file stays; the
\* response is the same either way. temp_file_path is the name of the file
\* made at line 115 and None otherwise, so the file a pdfPath names is not
\* touched.
HttpCleanup ==
    /\ pc = "http_cleanup"
    /\ IF temp_file = "exists"
       THEN \E unlinked \in BOOLEAN :
                temp_file' = IF unlinked THEN "deleted" ELSE temp_file
       ELSE UNCHANGED temp_file
    /\ pc' = "done"
    /\ UNCHANGED <<caller, doc, analysis_type, result, seen, upload, request,
                   constructed, response>>
    /\ UNCHANGED <<now, uploads>>

Next ==
    \/ Construct
    \/ ParsePage1
    \/ CalculateTotal
    \/ ExtractMapImage
    \/ Return
    \/ Close
    \/ HttpPrepare
    \/ HttpValidateHeader
    \/ HttpConstruct
    \/ HttpReadFlag
    \/ HttpClose
    \/ HttpCleanup

Spec == Init /\ [][Next]_vars

\* ------------------------------------------------------------------------
\* Several extractions uploading to the same Cloudinary folder.  Extractions
\* share no state, so of each one only its call of _upload_to_cloudinary is
\* followed: it reads the clock and passes the public_id made from it.
\* ------------------------------------------------------------------------
MaxExtractions == 2
MaxUploads == 3
MaxNow == 5

UploadsInit ==
    /\ caller = "_upload_to_cloudinary"
    /\ pc = "idle"
    /\ doc = Document(0, <<>>, <<>>, FALSE)
    /\ analysis_type = NoneVal
    /\ result = NoResult
    /\ seen = {}
    /\ upload = "none"
    /\ request = NoRequest
    /\ constructed = FALSE
    /\ temp_file = "none"
    /\ response = NoResponse
    /\ now = 0
    /\ uploads = <<>>

\* time passes between two calls
Tick ==
    /\ now < MaxNow
    /\ now' = now + 1
    /\ UNCHANGED <<caller, pc, doc, analysis_type, result, seen, upload, request,
                   constructed, temp_file, response, uploads>>

\* _upload_to_cloudinary, lines 373-383, in one of the extractions
UploadCall ==
    /\ Len(uploads) < MaxUploads
    /\ \E e \in 1..MaxExtractions : uploads' = Append(uploads, UploadCallOf(e, now))
    /\ UNCHANGED <<caller, pc, doc, analysis_type, result, seen, upload, request,
                   constructed, temp_file, response, now>>

UploadsNext ==
    \/ Tick
    \/ UploadCall

SpecUploads == UploadsInit /\ [][UploadsNext]_vars

\* ------------------------------------------------------------------------
\* Properties of the extraction record
\* ------------------------------------------------------------------------
\* extract() has returned its record to extract_pdf_report
Extracted ==
    caller = "extract_pdf_report" /\ pc \in {"close", "done"} /\ response = Returned

PageText == FullTextSpaced(doc.blocks)
PageLower == Lower(PageText)

TotalHectares == result.weed_analysis.total_area_hectares
TotalPercent == result.weed_analysis.total_area_percent
LevelEntries == result.weed_analysis.levels

Significant == {"high", "moderate"}
SignificantHectares == SumHectares(LevelEntries, Significant)

\* the positions where a "<num> ha = <num>% field" token starts in s
TokenStarts(s) ==
    {i \in 1..Len(s) : /\ Char(s, i) \in DigitDot
                       /\ (i = 1 \/ Char(s, i - 1) \notin DigitDot)
                       /\ TotalHaPctAt(s, i).ok}

\* both numbers of the token are numbers float() accepts
WellFormed(m) == ParseFloat(m.g1).ok /\ ParseFloat(m.g2).ok
TokenPair(m) == <<ParseFloat(m.g1).val, ParseFloat(m.g2).val>>

WellFormedTokens(s) == {i \in TokenStarts(s) : WellFormed(TotalHaPctAt(s, i))}

\* the 0-based position of the first occurrence of the detected type's
\* total-area label, -1 when it is absent
LabelPos == Find(PageLower, ConfigOf(analysis_type).total_area_pattern)

\* the tokens lying completely within the 200 characters that start at the
\* label
TokensInWindow ==
    LET s == PageLower
        p == LabelPos
    IN  {i \in TokenStarts(s) :
            /\ i > p
            /\ TotalHaPctAt(s, i).end - 1 <= p + TotalWindowAfter}

C1_LabelAndToken ==
    /\ Extracted
    /\ analysis_type # NoneVal
    /\ LabelPos >= 0
    /\ WellFormedTokens(PageLower) # {}

C1_TokenInWindow ==
    /\ Extracted
    /\ analysis_type # NoneVal
    /\ LabelPos >= 0
    /\ TokensInWindow # {}
    /\ WellFormed(TotalHaPctAt(PageLower, SetMin(TokensInWindow)))

\* C1 as stated: whenever the total-area label and a well-formed
\* "<num> ha = <num>% field" token are both present in the page-1 text of a
\* detected type, wherever the token sits, the totals of the returned record
\* are the two numbers of such a token.
C1_TokenAnywhere ==
    C1_LabelAndToken =>
        LET s == PageLower
        IN  <<TotalHectares, TotalPercent>> \in
                {TokenPair(TotalHaPctAt(s, i)) : i \in WellFormedTokens(s)}

\* C1: when the first "<num> ha = <num>% field" token lying completely within
\* the 200 characters that start at the first occurrence of the label is
\* well-formed, total_area_hectares and total_area_percent of the returned
\* record are exactly the two numbers of that token; the sum of the levels
\* does not replace the hectares.
C1_TokenAfterLabel ==
    C1_TokenInWindow =>
        <<TotalHectares, TotalPercent>> =
            TokenPair(TotalHaPctAt(PageLower, SetMin(TokensInWindow)))

\* a record whose totals come from the token although its levels carry a
\* different sum for the significant severities
C1_Witness ==
    /\ C1_TokenInWindow
    /\ SignificantHectares # FZero
    /\ SignificantHectares # Float(TotalHectares)
    /\ TotalPercent # NoneVal

\* no "% field" token (and so no "ha = % field" token) anywhere in the text
NoTotalText ==
    LET s == PageLower
    IN  \A i \in 1..Len(s) : ~PctFieldAt(s, i).ok

C2_NoTextButLevels ==
    /\ Extracted
    /\ NoTotalText
    /\ \E k \in 1..Len(LevelEntries) : LevelEntries[k].severity \in Significant

\* C2 as stated: without total-area text and with at least one high or
\* moderate entry, total_area_hectares is the rounded sum of those entries,
\* also when the sum is 0, and total_area_percent is unset.
C2_SumIncludingZero ==
    C2_NoTextButLevels =>
        /\ TotalHectares = Round2(SignificantHectares)
        /\ TotalPercent = NoneVal

\* C2: without total-area text and with at least one high or moderate entry,
\* total_area_hectares is the sum of the hectares of those entries rounded
\* to two decimals when that sum is greater than 0 and stays unset when the
\* sum is 0; total_area_percent stays unset.
C2_SumWhenPositive ==
    C2_NoTextButLevels =>
        /\ TotalPercent = NoneVal
        /\ TotalHectares = IF SignificantHectares # FZero
                           THEN Round2(SignificantHectares) ELSE NoneVal

\* a record whose hectares are a sum of two entries that rounding changes
C2_Witness ==
    /\ C2_NoTextButLevels
    /\ Len(LevelEntries) >= 2
    /\ SignificantHectares # FZero
    /\ Float(Round2(SignificantHectares)) # SignificantHectares
    /\ TotalHectares = Round2(SignificantHectares)

\* the words of a value made of letters and whitespace
RECURSIVE WordsOf(_)
WordsOf(s) ==
    LET a == RunEnd(s, 1, Spaces)
        b == RunEnd(s, a, Letters)
    IN  IF a > Len(s) \/ b = a THEN {}
        ELSE {SubSeq(s, a, b - 1)} \cup WordsOf(SubSeq(s, b, Len(s)))

MadeOfStopWords(v) ==
    /\ v # NoneVal
    /\ WordsOf(Lower(v)) # {}
    /\ WordsOf(Lower(v)) \subseteq excluded_words

\* the text after the first "Crop:" label, lowered, up to 200 characters
CropSearchText ==
    Lower(Slice(PageText, Find(PageText, "Crop:") + 5,
                Find(PageText, "Crop:") + 5 + CropWindow))

\* the label is immediately followed by a stop-listed word and no dictionary
\* crop name occurs in the window
C3_LabelThenStopWord ==
    /\ Extracted
    /\ doc.pages >= 1
    /\ Find(PageText, "Crop:") >= 0
    /\ LET a == RunEnd(CropSearchText, 1, Spaces)
           b == RunEnd(CropSearchText, a, Letters)
       IN  b > a /\ SubSeq(CropSearchText, a, b - 1) \in excluded_words
    /\ ~ReSearch([i \in 1..Len(CropSearchText) |-> CropNameAt(CropSearchText, i)]).ok

\* C3: when the "Crop:" label is immediately followed by a stop-listed word
\* and no dictionary crop name occurs in the 200-character window, field.crop
\* is unset in the returned record, and field.crop is never a value made of
\* stop-listed words only.
C3_CropStopList ==
    (Extracted /\ doc.pages >= 1) =>
        /\ ~MadeOfStopWords(result.field.crop)
        /\ C3_LabelThenStopWord => result.field.crop = NoneVal

\* the rows of the page text that a level pattern matches, as a set
RowSet(words) ==
    LET s  == PageText
        ms == LevelMatches(s, words, 1)
    IN  {ms[k] : k \in 1..Len(ms)}

\* the rows "W1 .. Wn p% h" of the page text: the matches of the level
\* pattern (any run of whitespace between the parts) whose numbers parse
ParsedRows(words) == {m \in RowSet(words) : WellFormed(m)}

\* a row written like its label: one whitespace character between its parts
SingleSpaced(m) ==
    \A i \in m.start..(m.end - 2) :
        ~(Char(PageText, i) \in Spaces /\ Char(PageText, i + 1) \in Spaces)

\* the single-spaced rows "W1 .. Wn p% h" of the page text
Rows(words) == {m \in ParsedRows(words) : SingleSpaced(m)}

\* an entry of the levels list with these fields
HasEntry(name, severity, m) ==
    \E k \in 1..Len(LevelEntries) :
        LevelEntries[k] = [level |-> name, severity |-> severity,
                           percentage |-> ParseFloat(m.g1).val,
                           area_hectares |-> ParseFloat(m.g2).val]

\* a row of the shorter label with the numbers of m that is not the tail of a
\* row of one of the longer labels
StandaloneRow(words, longer, m) ==
    \E r \in ParsedRows(words) :
        /\ TokenPair(r) = TokenPair(m)
        /\ \A l \in longer : \A q \in RowSet(l) : ~(q.start < r.start /\ r.start < q.end)

\* C4: in a plant_stress text every row "Potential Plant Stress p% h" yields
\* a Potential Plant Stress entry of severity moderate and no Plant Stress
\* entry of severity high from the same row (an entry with its numbers is
\* there only if a Plant Stress row of its own carries them); in a flowering
\* text a row "Full Flowering p% h" or "No Flowering p% h" yields no
\* Flowering entry of severity moderate from the same row.
C4_ExclusionGuard ==
    Extracted =>
        /\ analysis_type = "plant_stress" =>
              \A m \in ParsedRows(<<"Potential", "Plant", "Stress">>) :
                  /\ HasEntry("Potential Plant Stress", "moderate", m)
                  /\ HasEntry("Plant Stress", "high", m) =>
                        StandaloneRow(<<"Plant", "Stress">>,
                                      {<<"Potential", "Plant", "Stress">>}, m)
        /\ analysis_type = "flowering" =>
              \A m \in ParsedRows(<<"Full", "Flowering">>)
                        \cup ParsedRows(<<"No", "Flowering">>) :
                  HasEntry("Flowering", "moderate", m) =>
                      StandaloneRow(<<"Flowering">>,
                                    {<<"Full", "Flowering">>, <<"No", "Flowering">>}, m)

\* the pairs of matched strings of the rows of one level that pass its
\* exclusion guard and carry two numbers
KeptRows(cfg) ==
    {<<m.g1, m.g2>> : m \in {r \in RowSet(cfg.pattern) :
                               ~Excluded(PageText, r, cfg.exclude_context) /\ WellFormed(r)}}

EntriesOf(name) == {k \in 1..Len(LevelEntries) : LevelEntries[k].level = name}

\* C5 as stated: the levels list holds no two entries with the same level
\* name, the same percentage and the same area_hectares.
C5_DistinctValues ==
    Extracted =>
        \A j, k \in 1..Len(LevelEntries) :
            (j # k /\ LevelEntries[j].level = LevelEntries[k].level) =>
                \/ LevelEntries[j].percentage # LevelEntries[k].percentage
                \/ LevelEntries[j].area_hectares # LevelEntries[k].area_hectares

\* C5: the levels list holds exactly one entry for every level name and every
\* distinct pair of matched percentage and hectares strings of its rows, so
\* identical occurrences of a row yield one entry; rows that write the same
\* numbers differently yield one entry each.
C5_DistinctMatchedText ==
    (Extracted /\ analysis_type # NoneVal) =>
        \A c \in 1..Len(ConfigOf(analysis_type).levels) :
            LET cfg == ConfigOf(analysis_type).levels[c]
            IN  /\ Cardinality(EntriesOf(cfg.name)) = Cardinality(KeptRows(cfg))
                /\ \A r \in KeptRows(cfg) :
                      \E k \in EntriesOf(cfg.name) :
                          /\ LevelEntries[k].percentage = ParseFloat(r[1]).val
                          /\ LevelEntries[k].area_hectares = ParseFloat(r[2]).val

\* two identical "Fine 12.0% 3.0" blocks and exactly one Fine entry
C5_Witness ==
    /\ Extracted
    /\ analysis_type # NoneVal
    /\ \E i, j \in 1..Len(doc.blocks) :
          i < j /\ doc.blocks[i] = "Fine 12.0% 3.0" /\ doc.blocks[j] = "Fine 12.0% 3.0"
    /\ Cardinality(EntriesOf("Fine")) = 1

\* _extract_map_image(1) has returned for a second page without embedded
\* images
RenderedPageReturned ==
    /\ caller = "extract_pdf_report"
    /\ pc \in {"return", "close", "done"}
    /\ doc.pages >= 2
    /\ doc.images = <<>>

UploadFailed == upload \in {"cloudinary_error", "exception"}

\* C6: for a valid page index whose page has no embedded image the result
\* of the map-image locator has source page_render and non-null width and
\* height, whatever the upload does.
C6_AlwaysPageRender ==
    RenderedPageReturned =>
        /\ "source" \in DOMAIN result.map_image
        /\ result.map_image.source = "page_render"
        /\ result.map_image.width # NoneNum
        /\ result.map_image.height # NoneNum

\* C7: in every record extract() returns, total_area_percent is unset or a
\* number from 0 to 100.
C7_PercentInRange ==
    Extracted =>
        \/ TotalPercent = NoneVal
        \/ ~FLess(Float("100.0"), Float(TotalPercent))

\* no keyword of a registered bundle occurs in the page-1 text
Undetected ==
    \A k \in 1..Len(TypeKeys) : \A j \in 1..Len(TYPES[TypeKeys[k]].keywords) :
        ~Contains(Lower(FullText(doc.blocks)), Lower(TYPES[TypeKeys[k]].keywords[j]))

HasBlock(b) == \E i \in 1..Len(doc.blocks) : doc.blocks[i] = b

ImagesReadable == \A i \in 1..Len(doc.images) : ~doc.images[i].broken

\* extract() was called on a document with a first page and has ended
ExtractEnded ==
    /\ caller = "extract_pdf_report"
    /\ pc \in {"close", "done"}
    /\ doc.pages >= 1
    /\ doc.openable

\* C8: when no keyword of a registered bundle occurs in the page-1 text,
\* extract() returns its record without raising (the images of a second page
\* being readable), detected_analysis_type, total_area_hectares and
\* total_area_percent are unset and levels is empty, also when the text
\* carries "% field" tokens or level-like rows, and the survey date, the crop,
\* the growing stage, the field area and the additional information are those
\* of the text.
C8_UndetectedType ==
    (ExtractEnded /\ Undetected) =>
        /\ ImagesReadable => response = Returned
        /\ result.report.detected_analysis_type = NoneVal
        /\ TotalHectares = NoneVal
        /\ TotalPercent = NoneVal
        /\ LevelEntries = <<>>
        /\ HasBlock("Survey date: 01-02-2024 Crop: wheat") =>
              /\ result.report.survey_date = "01-02-2024"
              /\ result.field.crop = "wheat"
        /\ HasBlock("Growing stage: BBCH69 Field area: 45.30 Hectare") =>
              /\ result.field.growing_stage = "BBCH69"
              /\ result.field.area_hectares = "45.3"
        /\ HasBlock("Additional Information (or recommendation): spray soon Powered by Agremo") =>
              result.additional_info = "spray soon"

\* an undetected text with a "% field" token and a level-like row next to
\* the date and the crop
C8_Witness ==
    /\ ExtractEnded
    /\ Undetected
    /\ response = Returned
    /\ HasBlock("22.04 ha = 69% field")
    /\ HasBlock("Fine 31% 14.05")
    /\ result.field.crop = "wheat"
    /\ result.report.survey_date = "01-02-2024"
    /\ LevelEntries = <<>>
    /\ TotalPercent = NoneVal

\* C9: when the extraction call has ended, on every exit path and for every
\* page count, a document handle that was opened is closed.
C9_HandleClosed ==
    pc = "done" => doc.handle # "open"

\* the input the handler serves the request from (the content when there is
\* one, else the path) is in error
InputError(req) ==
    IF req.pdfContent # ""
    THEN \/ ~B64Decode(req.pdfContent).ok
         \/ Len(B64Decode(req.pdfContent).bytes) > req.max_file_size
         \/ ReadBytes(B64Decode(req.pdfContent).bytes, Len(PdfMagic)) # PdfMagic
    ELSE IF req.pdfPath.given
    THEN \/ ~req.pdfPath.exists
         \/ ~req.pdfPath.readable
         \/ req.pdfPath.is_dir
         \/ req.pdfPath.size > req.max_file_size
         \/ ReadBytes(req.pdfPath.bytes, Len(PdfMagic)) # PdfMagic
    ELSE TRUE

\* C10: for a request with neither content nor path, or whose input is
\* content base64 decoding rejects, a missing or unreadable file, larger than
\* max_file_size, or does not start with %PDF, AgremoReportExtractor is never
\* constructed, and the handler returns success=false with a non-empty error
\* and no extractedData.
C10_InputErrorsStopEarly ==
    (caller = "extract_drone_data" /\ InputError(request)) =>
        /\ ~constructed
        /\ doc.handle = "unopened"
        /\ pc \notin {"http_construct", "http_flag", "extract", "http_close"}
        /\ pc = "done" =>
              /\ response.kind = "envelope"
              /\ ~response.success
              /\ response.error # ""
              /\ ~response.data

\* a request whose content decodes to bytes that are no PDF: answered with a
\* failure, the temporary file removed, no extractor constructed
C10_Witness ==
    /\ caller = "extract_drone_data"
    /\ pc = "done"
    /\ InputError(request)
    /\ request.pdfContent # ""
    /\ B64Decode(request.pdfContent).ok
    /\ response = Failure("File is not a valid PDF")
    /\ temp_file = "deleted"
    /\ ~constructed

\* the request passes the input validation of the handler and its PDF opens
\* as a document
ValidRequest ==
    /\ caller = "extract_drone_data"
    /\ ~InputError(request)
    /\ (request.pdfContent # "" => request.temp = "ok")
    /\ request.openable

\* C11: for every request whose PDF passes input validation and opens as a
\* document, the handler returns success=true with extractedData and no
\* error.
C11_ValidRequestSucceeds ==
    (ValidRequest /\ pc = "done") => response = Success

\* the sections of a record other than map_image
OtherSections(r) ==
    <<r.metadata, r.report, r.field, r.weed_analysis, r.additional_info>>

\* the record of the document before the map-image step: what page-1
\* parsing and the level sum make of its text
RecordBeforeMap ==
    LET r == ParsePage1Text(InitResult(doc), doc.blocks)
        t == r.report.detected_analysis_type
    IN  [r EXCEPT !.weed_analysis.total_area_hectares =
            CalculateTotalFromLevels(t,
                [ha |-> r.weed_analysis.total_area_hectares,
                 pct |-> r.weed_analysis.total_area_percent],
                r.weed_analysis.levels)]

\* the upload was attempted in this extraction
UploadAttempted == caller = "extract_pdf_report" /\ upload # "none"

\* the message of a failed upload
UploadErrorText ==
    IF upload = "cloudinary_error" THEN "Cloudinary upload failed: service error"
    ELSE "connection reset"

\* C12: when the upload fails, with a CloudinaryError or with any other
\* exception, extract() returns its record, map_image.error is the failure
\* message, and the metadata, report, field, analysis and additional_info
\* sections are those of the document, the same as after a successful upload.
C12_UploadFailureKeepsRecord ==
    UploadAttempted =>
        /\ OtherSections(result) = OtherSections(RecordBeforeMap)
        /\ UploadFailed =>
              /\ response.kind # "raised"
              /\ pc \in {"close", "done"} => response = Returned
              /\ "error" \in DOMAIN result.map_image
              /\ result.map_image.error = UploadErrorText

\* a record with totals and a level whose upload failed with an exception
\* other than CloudinaryError
C12_Witness ==
    /\ UploadAttempted
    /\ upload = "exception"
    /\ pc = "done"
    /\ response = Returned
    /\ result.map_image.error = "connection reset"
    /\ TotalHectares = "22.04"
    /\ Len(LevelEntries) = 1

MapImage == result.map_image

\* field f of the map_image section is present and not None
MapImageHas(f) ==
    /\ f \in DOMAIN MapImage
    /\ IF f \in {"width", "height", "bytes"}
       THEN MapImage[f] # NoneNum
       ELSE MapImage[f] # NoneVal

\* C13: in every returned record map_image.source is one of
\* embedded, page_render, cloud_upload, error, and the section carries the
\* upload reference (url, public id, byte size) or a non-null error.
C13_SourceInDeclaredSet ==
    Extracted =>
        /\ "source" \in DOMAIN MapImage
        /\ MapImage.source \in {"embedded", "page_render", "cloud_upload", "error"}
        /\ \/ MapImageHas("url") /\ MapImageHas("public_id") /\ MapImageHas("bytes")
           \/ MapImageHas("error")

\* a keyword of the bundle occurs in the page-1 text, letter case ignored
KeywordOccurs(type) ==
    LET text == FullText(doc.blocks)
    IN  \E j \in 1..Len(TYPES[type].keywords) :
            \E i \in 1..Len(text) : MatchAtCI(text, i, TYPES[type].keywords[j])

\* C14: the detected type is plant_stress when a plant_stress keyword occurs
\* in the text, letter case ignored, also when a flowering keyword occurs
\* too; it is flowering when only a flowering keyword occurs; it is
\* undetected exactly when no keyword of either bundle occurs.
C14_FirstBundleWins ==
    (Extracted /\ doc.pages >= 1) =>
        /\ result.report.detected_analysis_type =
              (IF KeywordOccurs("plant_stress") THEN "plant_stress"
               ELSE IF KeywordOccurs("flowering") THEN "flowering"
               ELSE NoneVal)
        /\ analysis_type = result.report.detected_analysis_type

\* a text with a flowering keyword before a plant-stress keyword, neither
\* in the letter case of the bundle, detected as plant_stress
C14_Witness ==
    /\ Extracted
    /\ HasBlock("Flowering or plant STRESS")
    /\ KeywordOccurs("plant_stress")
    /\ KeywordOccurs("flowering")
    /\ result.report.detected_analysis_type = "plant_stress"

\* ------------------------------------------------------------------------
\* C15: the public identifiers of uploads
\* ------------------------------------------------------------------------
\* C15: any two upload calls, whether of the same extraction or of two, and
\* however close in time, are passed distinct public identifiers
C15_DistinctPublicIds ==
    \A i, j \in 1..Len(uploads) : i # j => uploads[i].public_id # uploads[j].public_id

\* ------------------------------------------------------------------------
\* C16: the field area when the label is present and its window has no token
\* ------------------------------------------------------------------------
FieldArea == result.field.area_hectares

\* the first "<number> Hectare" token of s, as re.search finds it
FirstHectare(s) == ReSearch([i \in 1..Len(s) |-> HectareAt(s, i)])

\* the label "Field area:" is in the text and the 100 characters starting at
\* it hold no "<number> Hectare" token
AreaLabelWithoutToken ==
    LET s == PageText
        p == Find(s, "Field area:")
    IN  p >= 0 /\ ~FirstHectare(Slice(s, p, p + AreaWindow)).ok

\* C16: when the label "Field area:" is present and no "<number> Hectare"
\* token lies in the 100-character window after it, field.area_hectares is
\* the parsed number of the first such token anywhere in the flat text, and
\* is unset only when there is none or its number does not parse
C16_AreaFallsBackToWholeText ==
    (Extracted /\ AreaLabelWithoutToken) => FieldArea = AreaValue(FirstHectare(PageText))

\* ------------------------------------------------------------------------
\* C17: the analysis name when there is no explicit one
\* ------------------------------------------------------------------------
AnalysisName == result.report.analysis_name

\* the label "Analysis name:" is followed by a value that is accepted
ExplicitNameAccepted ==
    LET s == PageText
    IN  AcceptedName(ReSearch([i \in 1..Len(s) |-> AnalysisNameAt(s, i)]))

KeywordsOf(type) == {TYPES[type].keywords[j] : j \in 1..Len(TYPES[type].keywords)}

\* C17: when an analysis type is detected, report.analysis_name is not None
\* after page-1 parsing, and without an accepted explicit name it is one of
\* the keywords of the detected type, whatever the letter case of the
\* keyword in the text
C17_FallbackNamesDetectedType ==
    (Extracted /\ doc.pages >= 1 /\ analysis_type # NoneVal) =>
        /\ AnalysisName # NoneVal
        /\ ~ExplicitNameAccepted => AnalysisName \in KeywordsOf(analysis_type)

\* ------------------------------------------------------------------------
\* C18: what the exclusion guard discards
\* ------------------------------------------------------------------------
\* the well-formed rows of the shorter label that are not the tail of a row
\* of one of the longer labels
StandaloneRows(words, longer) ==
    {r \in Rows(words) :
        \A l \in longer : \A q \in RowSet(l) : ~(q.start < r.start /\ r.start < q.end)}

\* C18: every standalone row "Flowering p% h" of a flowering text yields a
\* Flowering entry with its numbers, and every standalone row
\* "Plant Stress p% h" of a plant_stress text yields a Plant Stress entry,
\* whatever stands in the 20 characters before the row
C18_StandaloneRowsKept ==
    Extracted =>
        /\ analysis_type = "flowering" =>
              \A r \in StandaloneRows(<<"Flowering">>,
                                      {<<"Full", "Flowering">>, <<"No", "Flowering">>}) :
                  HasEntry("Flowering", "moderate", r)
        /\ analysis_type = "plant_stress" =>
              \A r \in StandaloneRows(<<"Plant", "Stress">>,
                                      {<<"Potential", "Plant", "Stress">>}) :
                  HasEntry("Plant Stress", "high", r)

\* ------------------------------------------------------------------------
\* C19: the temporary file of the HTTP handler
\* ------------------------------------------------------------------------
HandlerReturned == caller = "extract_drone_data" /\ pc = "done"

\* the handler reached tempfile.NamedTemporaryFile and it made a file
TempFileCreated ==
    /\ request.pdfContent # ""
    /\ B64Decode(request.pdfContent).ok
    /\ Len(B64Decode(request.pdfContent).bytes) <= request.max_file_size
    /\ request.temp # "create_fails"

\* C19: when the handler has returned, every temporary file it created is
\* deleted, on every exit path after creation (write failure, failed header
\* check, failed construction or extraction, success), and no step of the
\* handler deletes or changes the file a pdfPath names.
C19_TempFileDeleted ==
    /\ [](HandlerReturned =>
             /\ temp_file \in {"none", "deleted"}
             /\ temp_file = "deleted" <=> TempFileCreated)
    /\ [][caller = "extract_drone_data" => request'.pdfPath = request.pdfPath]_vars

====
